---- MODULE Spec2Model ----
(***************************************************************************)
(* Verification model of app/utils/confidence.py: the Confidence Scorer    *)
(* (calculate_confidence_score) and the Signal Resolver                    *)
(* (generate_trading_signal).                                              *)
(*                                                                         *)
(* Numbers.  The code computes in Python floats.  The model computes the   *)
(* same expressions in exact rational arithmetic: a number is a pair       *)
(* <<n, d>> in lowest terms with d > 0, and Python's None is the empty     *)
(* tuple <<>>.  round() is Python 3's round-half-to-even.                  *)
(*                                                                         *)
(* Notes.  An evidence note is the source's string literal.  Where the     *)
(* source formats a number or an input string into the note (an f-string   *)
(* placeholder), the placeholder is kept verbatim in the model's string:   *)
(* within one call every such template is appended at most once, so the    *)
(* set of notes of a call is the same.  Python's substring test            *)
(* (`'bullish' in item`) is modelled by Words(note), the set of the tested *)
(* keywords that occur in the note's text.                                 *)
(***************************************************************************)
EXTENDS Integers, Sequences, FiniteSets, TLC

\* call: the operation called and its arguments; result: what it returned;
\* locals: the function's local variables as they are when it returns;
\* pc: "called" before the call runs, "returned" after;
\* history: the calls completed so far, each with what it returned;
\* cache: CacheManager._cache, {namespace: {key: CacheEntry}}; now: time.time();
\* written: for each cache key, the last set since its last delete or clear;
\* df: the caller's DataFrame handed to calculate_technical_indicators.
VARIABLES call, result, locals, pc, history, cache, now, written, df

cacheVars == <<cache, now, written>>

vars == <<call, result, locals, pc, history, cacheVars, df>>

None == <<>>

(***************************************************************************)
(* Exact rational arithmetic standing for Python float arithmetic.         *)
(***************************************************************************)
RECURSIVE GCD(_, _)
GCD(a, b) == IF b = 0 THEN a ELSE GCD(b, a % b)

IAbs(n) == IF n < 0 THEN -n ELSE n

Rat(n, d) ==
    LET s == IF d < 0 THEN -1 ELSE 1
        g == GCD(IAbs(n), IAbs(d))
    IN  <<(s * n) \div g, (s * d) \div g>>

RInt(n) == <<n, 1>>

RAdd(x, y) ==
    LET g == GCD(x[2], y[2])
    IN  Rat(x[1] * (y[2] \div g) + y[1] * (x[2] \div g), x[2] * (y[2] \div g))

RNeg(x) == <<-x[1], x[2]>>

RSub(x, y) == RAdd(x, RNeg(y))

RMul(x, y) ==
    LET g1 == GCD(IAbs(x[1]), y[2])
        g2 == GCD(IAbs(y[1]), x[2])
        h1 == IF g1 = 0 THEN 1 ELSE g1
        h2 == IF g2 = 0 THEN 1 ELSE g2
    IN  Rat((x[1] \div h1) * (y[1] \div h2), (x[2] \div h2) * (y[2] \div h1))

RDiv(x, y) == RMul(x, Rat(y[2], y[1]))

RAbs(x) == <<IAbs(x[1]), x[2]>>

RLt(x, y) == x[1] * y[2] < y[1] * x[2]

RLe(x, y) == x[1] * y[2] <= y[1] * x[2]

\* Python's min(a, b) and max(a, b): the first argument wins a tie.
RMin(x, y) == IF RLt(y, x) THEN y ELSE x

RMax(x, y) == IF RLt(x, y) THEN y ELSE x

\* Python 3 round(x): nearest integer, a tie goes to the even one.
Round(x) ==
    LET q == x[1] \div x[2]
        r == x[1] % x[2]
    IN  IF 2 * r < x[2] THEN q
        ELSE IF 2 * r > x[2] THEN q + 1
        ELSE IF q % 2 = 0 THEN q ELSE q + 1

\* Python 3 round(x, 2).
Round2(x) == Rat(Round(RMul(x, RInt(100))), 100)

(***************************************************************************)
(* calculate_confidence_score, part 1: the six technical families.  Each   *)
(* family operator returns what the family's block adds: its entry of      *)
(* `scores`, its increments of votes['bullish'|'bearish'|'neutral'], and   *)
(* the notes it appends to `supporting` and to `conflicting`.              *)
(***************************************************************************)
Family(score, bull, bear, neut, sup, con) ==
    [score |-> score, bull |-> bull, bear |-> bear, neut |-> neut,
     sup |-> sup, con |-> con]

\* Mutant of RsiAnalysis: the oversold score grows with rsi instead of with 30 - rsi.
RsiAnalysisRising(rsi) ==
    IF rsi # None THEN
        IF RLt(rsi, RInt(30)) THEN
            Family(RMin(RInt(20), RMul(rsi, Rat(3, 2))),
                   1, 0, 0, {"RSI oversold (<30)"}, {})
        ELSE IF RLt(RInt(70), rsi) THEN
            Family(RMin(RInt(20), RMul(RSub(rsi, RInt(70)), Rat(3, 2))),
                   0, 1, 0, {"RSI overbought (>70)"}, {})
        ELSE
            Family(RMax(RInt(0),
                        RSub(RInt(10), RMul(RAbs(RSub(RInt(50), rsi)), Rat(1, 5)))),
                   0, 0, 1, {}, {})
    ELSE Family(RInt(0), 0, 0, 0, {}, {})

\* Mutant of RsiAnalysis: the oversold and overbought scores are not capped.
RsiAnalysisUncapped(rsi) ==
    IF rsi # None THEN
        IF RLt(rsi, RInt(30)) THEN
            Family(RMul(RSub(RInt(30), rsi), Rat(3, 2)),
                   1, 0, 0, {"RSI oversold (<30)"}, {})
        ELSE IF RLt(RInt(70), rsi) THEN
            Family(RMul(RSub(rsi, RInt(70)), Rat(3, 2)),
                   0, 1, 0, {"RSI overbought (>70)"}, {})
        ELSE
            Family(RMax(RInt(0),
                        RSub(RInt(10), RMul(RAbs(RSub(RInt(50), rsi)), Rat(1, 5)))),
                   0, 0, 1, {}, {})
    ELSE Family(RInt(0), 0, 0, 0, {}, {})

\* 1. RSI Analysis (0-20 points)
RsiAnalysis(rsi) ==
    IF rsi # None THEN
        IF RLt(rsi, RInt(30)) THEN
            Family(RMin(RInt(20), RMul(RSub(RInt(30), rsi), Rat(3, 2))),
                   1, 0, 0, {"RSI oversold (<30)"}, {})
        ELSE IF RLt(RInt(70), rsi) THEN
            Family(RMin(RInt(20), RMul(RSub(rsi, RInt(70)), Rat(3, 2))),
                   0, 1, 0, {"RSI overbought (>70)"}, {})
        ELSE
            Family(RMax(RInt(0),
                        RSub(RInt(10), RMul(RAbs(RSub(RInt(50), rsi)), Rat(1, 5)))),
                   0, 0, 1, {}, {})
    ELSE Family(RInt(0), 0, 0, 0, {}, {})

\* 2. MACD Analysis (0-25 points)
MacdAnalysis(macd, macd_signal, macd_hist) ==
    IF macd # None /\ macd_signal # None /\ macd_hist # None THEN
        LET hist_score == RMin(RInt(15), RMul(RAbs(macd_hist), RInt(50)))
            cross_proximity_score ==
                RMax(RInt(0),
                     RSub(RInt(10), RMul(RAbs(RSub(macd, macd_signal)), RInt(20))))
            score == RAdd(hist_score, cross_proximity_score)
        IN  IF RLt(macd_signal, macd) /\ RLt(RInt(0), macd_hist) THEN
                Family(score, 1, 0, 0, {"MACD bullish crossover/positive hist"}, {})
            ELSE IF RLt(macd, macd_signal) /\ RLt(macd_hist, RInt(0)) THEN
                Family(score, 0, 1, 0, {"MACD bearish crossover/negative hist"}, {})
            ELSE
                Family(score, 0, 0, 1, {},
                       IF \/ RLt(macd_signal, macd) /\ RLt(macd_hist, RInt(0))
                          \/ RLt(macd, macd_signal) /\ RLt(RInt(0), macd_hist)
                       THEN {"MACD line/hist divergence"} ELSE {})
    ELSE Family(RInt(0), 0, 0, 0, {}, {})

\* 3. Bollinger Bands Analysis (0-25 points); 1e-6 is <<1, 1000000>>
BollingerAnalysis(bb_upper, bb_middle, bb_lower, price) ==
    IF bb_upper # None /\ bb_middle # None /\ bb_lower # None /\ price # None THEN
        LET band_width == RSub(bb_upper, bb_lower)
        IN  IF RLt(Rat(1, 1000000), band_width) THEN
                LET position == RDiv(RSub(price, bb_lower), band_width)
                IN  IF RLt(position, Rat(1, 10)) THEN
                        Family(RMin(RInt(25),
                                    RMul(RSub(Rat(1, 10), position), RInt(250))),
                               1, 0, 0, {"Price near lower Bollinger Band"}, {})
                    ELSE IF RLt(Rat(9, 10), position) THEN
                        Family(RMin(RInt(25),
                                    RMul(RSub(position, Rat(9, 10)), RInt(250))),
                               0, 1, 0, {"Price near upper Bollinger Band"}, {})
                    ELSE
                        Family(RMax(RInt(0),
                                    RSub(RInt(10),
                                         RMul(RAbs(RSub(Rat(1, 2), position)), RInt(20)))),
                               0, 0, 1, {}, {})
            ELSE Family(RInt(0), 0, 0, 0, {}, {})
    ELSE Family(RInt(0), 0, 0, 0, {}, {})

\* 4. SMA Analysis (0-20 points)
SmaAnalysis(sma_50, price) ==
    IF sma_50 # None /\ price # None THEN
        LET perc_diff ==
                IF sma_50 # RInt(0)
                THEN RMul(RDiv(RAbs(RSub(price, sma_50)), sma_50), RInt(100))
                ELSE RInt(0)
            score == RMin(RInt(20), RMul(perc_diff, RInt(4)))
        IN  IF RLt(sma_50, price) THEN Family(score, 1, 0, 0, {"Price > SMA 50"}, {})
            ELSE IF RLt(price, sma_50) THEN Family(score, 0, 1, 0, {"Price < SMA 50"}, {})
            ELSE Family(score, 0, 0, 1, {}, {})
    ELSE Family(RInt(0), 0, 0, 0, {}, {})

\* 5. ADX Analysis (0-20 points).  The source's 'DI+ ≈ DI-' is written '~='.
AdxAnalysis(adx, plus_di, minus_di) ==
    IF adx # None /\ plus_di # None /\ minus_di # None THEN
        LET adx_strength ==
                IF RLt(adx, RInt(20)) THEN RDiv(adx, RInt(2))
                ELSE IF RLt(adx, RInt(30))
                     THEN RAdd(RInt(10), RDiv(RSub(adx, RInt(20)), RInt(2)))
                     ELSE RInt(15)
            trend_note ==
                IF RLt(adx, RInt(20)) THEN "Weak trend (ADX={adx:.1f})"
                ELSE IF RLt(adx, RInt(30)) THEN "Moderate trend (ADX={adx:.1f})"
                     ELSE "Strong trend (ADX={adx:.1f})"
            di_diff == RAbs(RSub(plus_di, minus_di))
            di_sum == RAdd(plus_di, minus_di)
            di_diff_pct ==
                IF RLt(RInt(0), di_sum)
                THEN RMul(RDiv(di_diff, RDiv(di_sum, RInt(2))), RInt(100))
                ELSE RInt(0)
            directional_clarity == RMin(RInt(5), RDiv(di_diff_pct, RInt(10)))
            score == RMin(RInt(20), RAdd(adx_strength, directional_clarity))
            clear == RLt(RInt(20), di_diff_pct)
            trend == IF RLt(RInt(25), adx) THEN {trend_note} ELSE {}
        IN  IF RLt(minus_di, plus_di) THEN
                Family(score, IF clear THEN 2 ELSE 1, 0, 0,
                       (IF clear
                        THEN {"Strong ADX bullish signal (DI+ > DI- by {di_diff_pct:.1f}%)"}
                        ELSE {"ADX bullish (DI+ > DI-)"}) \cup trend, {})
            ELSE IF RLt(plus_di, minus_di) THEN
                Family(score, 0, IF clear THEN 2 ELSE 1, 0,
                       (IF clear
                        THEN {"Strong ADX bearish signal (DI- > DI+ by {di_diff_pct:.1f}%)"}
                        ELSE {"ADX bearish (DI- > DI+)"}) \cup trend, {})
            ELSE
                Family(score, 0, 0, 1, {"No clear trend direction (DI+ ~= DI-)"}, {})
    ELSE Family(RInt(0), 0, 0, 0, {}, {})

\* Mutant of EmaAnalysis: the near-crossover rule casts its bearish vote only
\* when ema_9 is below ema_21, and none on equality.
EmaAnalysisStrictCross(ema_9, ema_21, ema_55, price) ==
    IF ema_9 # None /\ ema_21 # None /\ ema_55 # None /\ price # None THEN
        LET align ==
                IF RLt(ema_21, ema_9) /\ RLt(ema_55, ema_21) THEN
                    Family(10, 2, 0, 0, {"Strong bullish EMA alignment (9 > 21 > 55)"}, {})
                ELSE IF RLt(ema_9, ema_21) /\ RLt(ema_21, ema_55) THEN
                    Family(10, 0, 2, 0, {"Strong bearish EMA alignment (9 < 21 < 55)"}, {})
                ELSE IF RLt(ema_21, ema_9) THEN
                    Family(5, 1, 0, 0, {"Short-term bullish (EMA9 > EMA21)"}, {})
                ELSE IF RLt(ema_9, ema_21) THEN
                    Family(5, 0, 1, 0, {"Short-term bearish (EMA9 < EMA21)"}, {})
                ELSE Family(0, 0, 0, 0, {}, {})
            ema_9_21_diff_pct ==
                IF ema_21 # RInt(0)
                THEN RMul(RDiv(RAbs(RSub(ema_9, ema_21)), ema_21), RInt(100))
                ELSE RInt(0)
            cross ==
                IF RLt(ema_9_21_diff_pct, Rat(1, 2)) THEN
                    IF RLt(ema_21, ema_9)
                    THEN Family(5, 1, 0, 0, {"Recent/potential bullish EMA9/21 crossover"}, {})
                    ELSE IF RLt(ema_9, ema_21)
                    THEN Family(5, 0, 1, 0, {"Recent/potential bearish EMA9/21 crossover"}, {})
                    ELSE Family(5, 0, 0, 0, {}, {})
                ELSE Family(0, 0, 0, 0, {}, {})
            pos55 ==
                IF RLt(ema_55, price) THEN
                    Family(5, 1, 0, 0, {"Price above EMA55 (bullish)"}, {})
                ELSE IF RLt(price, ema_55) THEN
                    Family(5, 0, 1, 0, {"Price below EMA55 (bearish)"}, {})
                ELSE Family(0, 0, 0, 0, {}, {})
            posAll ==
                IF RLt(ema_9, price) /\ RLt(ema_21, price) /\ RLt(ema_55, price) THEN
                    Family(0, 1, 0, 0, {"Price above all EMAs (strongly bullish)"}, {})
                ELSE IF RLt(price, ema_9) /\ RLt(price, ema_21) /\ RLt(price, ema_55) THEN
                    Family(0, 0, 1, 0, {"Price below all EMAs (strongly bearish)"}, {})
                ELSE Family(0, 0, 0, 0, {}, {})
            ema_score == align.score + cross.score + pos55.score + posAll.score
        IN  Family(RInt(IF ema_score > 20 THEN 20 ELSE ema_score),
                   align.bull + cross.bull + pos55.bull + posAll.bull,
                   align.bear + cross.bear + pos55.bear + posAll.bear,
                   0,
                   align.sup \cup cross.sup \cup pos55.sup \cup posAll.sup, {})
    ELSE Family(RInt(0), 0, 0, 0, {}, {})

\* 6. EMA Analysis (0-20 points): alignment, near-crossover, price vs EMA55,
\* price vs all EMAs; the four steps add to one ema_score and one vote tally.
EmaAnalysis(ema_9, ema_21, ema_55, price) ==
    IF ema_9 # None /\ ema_21 # None /\ ema_55 # None /\ price # None THEN
        LET align ==
                IF RLt(ema_21, ema_9) /\ RLt(ema_55, ema_21) THEN
                    Family(10, 2, 0, 0, {"Strong bullish EMA alignment (9 > 21 > 55)"}, {})
                ELSE IF RLt(ema_9, ema_21) /\ RLt(ema_21, ema_55) THEN
                    Family(10, 0, 2, 0, {"Strong bearish EMA alignment (9 < 21 < 55)"}, {})
                ELSE IF RLt(ema_21, ema_9) THEN
                    Family(5, 1, 0, 0, {"Short-term bullish (EMA9 > EMA21)"}, {})
                ELSE IF RLt(ema_9, ema_21) THEN
                    Family(5, 0, 1, 0, {"Short-term bearish (EMA9 < EMA21)"}, {})
                ELSE Family(0, 0, 0, 0, {}, {})
            ema_9_21_diff_pct ==
                IF ema_21 # RInt(0)
                THEN RMul(RDiv(RAbs(RSub(ema_9, ema_21)), ema_21), RInt(100))
                ELSE RInt(0)
            cross ==
                IF RLt(ema_9_21_diff_pct, Rat(1, 2)) THEN
                    IF RLt(ema_21, ema_9)
                    THEN Family(5, 1, 0, 0, {"Recent/potential bullish EMA9/21 crossover"}, {})
                    ELSE Family(5, 0, 1, 0, {"Recent/potential bearish EMA9/21 crossover"}, {})
                ELSE Family(0, 0, 0, 0, {}, {})
            pos55 ==
                IF RLt(ema_55, price) THEN
                    Family(5, 1, 0, 0, {"Price above EMA55 (bullish)"}, {})
                ELSE IF RLt(price, ema_55) THEN
                    Family(5, 0, 1, 0, {"Price below EMA55 (bearish)"}, {})
                ELSE Family(0, 0, 0, 0, {}, {})
            posAll ==
                IF RLt(ema_9, price) /\ RLt(ema_21, price) /\ RLt(ema_55, price) THEN
                    Family(0, 1, 0, 0, {"Price above all EMAs (strongly bullish)"}, {})
                ELSE IF RLt(price, ema_9) /\ RLt(price, ema_21) /\ RLt(price, ema_55) THEN
                    Family(0, 0, 1, 0, {"Price below all EMAs (strongly bearish)"}, {})
                ELSE Family(0, 0, 0, 0, {}, {})
            ema_score == align.score + cross.score + pos55.score + posAll.score
        IN  Family(RInt(IF ema_score > 20 THEN 20 ELSE ema_score),
                   align.bull + cross.bull + pos55.bull + posAll.bull,
                   align.bear + cross.bear + pos55.bear + posAll.bear,
                   0,
                   align.sup \cup cross.sup \cup pos55.sup \cup posAll.sup, {})
    ELSE Family(RInt(0), 0, 0, 0, {}, {})

\* 7. Data Quality Score (0-10 points)
expected_indicators ==
    {"rsi", "macd", "macd_signal", "macd_hist",
     "bb_upper", "bb_middle", "bb_lower", "sma_50",
     "adx", "adx_plus_di", "adx_minus_di",
     "ema_9", "ema_21", "ema_55"}

\* Mutant of DataQuality: a key counts as available when it is in the dict,
\* None or not.
DataQualityCountsKeys(tech_indicators) ==
    LET available == Cardinality({k \in expected_indicators : k \in DOMAIN tech_indicators})
        expected == Cardinality(expected_indicators)
    IN  IF expected > 0
        THEN RMin(RInt(10), RMul(Rat(available, expected), RInt(10)))
        ELSE RInt(0)

DataQuality(tech_indicators) ==
    LET available == Cardinality({k \in expected_indicators : tech_indicators[k] # None})
        expected == Cardinality(expected_indicators)
    IN  IF expected > 0
        THEN RMin(RInt(10), RMul(Rat(available, expected), RInt(10)))
        ELSE RInt(0)

(***************************************************************************)
(* Python's substring test `word in note`, for the words the code tests    *)
(* and the notes the code can build.                                       *)
(***************************************************************************)
NotesWithWord(word) ==
    CASE word = "bullish" ->
            {"MACD bullish crossover/positive hist",
             "Strong ADX bullish signal (DI+ > DI- by {di_diff_pct:.1f}%)",
             "ADX bullish (DI+ > DI-)",
             "Strong bullish EMA alignment (9 > 21 > 55)",
             "Short-term bullish (EMA9 > EMA21)",
             "Recent/potential bullish EMA9/21 crossover",
             "Price above EMA55 (bullish)",
             "Price above all EMAs (strongly bullish)"}
      [] word = "bearish" ->
            {"MACD bearish crossover/negative hist",
             "Strong ADX bearish signal (DI- > DI+ by {di_diff_pct:.1f}%)",
             "ADX bearish (DI- > DI+)",
             "Strong bearish EMA alignment (9 < 21 < 55)",
             "Short-term bearish (EMA9 < EMA21)",
             "Recent/potential bearish EMA9/21 crossover",
             "Price below EMA55 (bearish)",
             "Price below all EMAs (strongly bearish)"}
      [] word = "oversold" -> {"RSI oversold (<30)"}
      [] word = "overbought" -> {"RSI overbought (>70)"}
      [] word = "> SMA" -> {"Price > SMA 50"}
      [] word = "< SMA" -> {"Price < SMA 50"}
      [] word = "lower Bollinger" -> {"Price near lower Bollinger Band"}
      [] word = "upper Bollinger" -> {"Price near upper Bollinger Band"}
      [] word = "supports" ->
            {"Extreme Fear ({fg_value}) strongly supports bullish signal (contrarian)",
             "Fear ({fg_value}) supports bullish signal (contrarian)",
             "Extreme Greed ({fg_value}) strongly supports bearish signal",
             "Greed ({fg_value}) supports bearish signal",
             "Strong market up ({mkt_cap_change:.2f}%) strongly supports bullish signal",
             "Market up ({mkt_cap_change:.2f}%) supports bullish signal",
             "Strong market down ({mkt_cap_change:.2f}%) strongly supports bearish signal",
             "Market down ({mkt_cap_change:.2f}%) supports bearish signal",
             "Low BTC dominance supports bullish altcoin signal",
             "High BTC dominance supports bearish altcoin signal",
             "Bullish Twitter sentiment strongly supports bullish technical signals",
             "Bearish Twitter sentiment strongly supports bearish technical signals"}
      [] word = "conflicts" ->
            {"Extreme Greed ({fg_value}) conflicts with bullish signal",
             "Greed ({fg_value}) slightly conflicts with bullish signal",
             "Extreme Fear ({fg_value}) conflicts with bearish signal (contrarian)",
             "Fear ({fg_value}) slightly conflicts with bearish signal (contrarian)",
             "Strong market down ({mkt_cap_change:.2f}%) conflicts with bullish signal",
             "Market down ({mkt_cap_change:.2f}%) conflicts with bullish signal",
             "Strong market up ({mkt_cap_change:.2f}%) conflicts with bearish signal",
             "Market up ({mkt_cap_change:.2f}%) conflicts with bearish signal",
             "Low BTC dominance conflicts with bearish altcoin signal",
             "High BTC dominance conflicts with bullish altcoin signal",
             "Bearish Twitter sentiment conflicts with bullish technical signals",
             "Bullish Twitter sentiment conflicts with bearish technical signals"}
      [] word = "aligns" ->
            {"Neutral market sentiment ({fg_value}) aligns with neutral technical signals",
             "Stable market ({mkt_cap_change:.2f}%) aligns with neutral technical signals",
             "Neutral Twitter sentiment aligns with neutral technical signals"}
      [] OTHER -> {}

In(word, note) == note \in NotesWithWord(word)

(***************************************************************************)
(* calculate_confidence_score, part 2: the vote tally, the direction, the  *)
(* evidence lists of the technical notes, the agreement ratio and the      *)
(* weighted sum.                                                           *)
(***************************************************************************)
TechnicalFamilies(tech_indicators, price) ==
    [rsi  |-> RsiAnalysis(tech_indicators.rsi),
     macd |-> MacdAnalysis(tech_indicators.macd, tech_indicators.macd_signal,
                           tech_indicators.macd_hist),
     bb   |-> BollingerAnalysis(tech_indicators.bb_upper, tech_indicators.bb_middle,
                                tech_indicators.bb_lower, price),
     sma  |-> SmaAnalysis(tech_indicators.sma_50, price),
     adx  |-> AdxAnalysis(tech_indicators.adx, tech_indicators.adx_plus_di,
                          tech_indicators.adx_minus_di),
     ema  |-> EmaAnalysis(tech_indicators.ema_9, tech_indicators.ema_21,
                          tech_indicators.ema_55, price)]

FamilyNames == {"rsi", "macd", "bb", "sma", "adx", "ema"}

\* Mutant of TallyVotes: the votes dict outlives the call (a module-level dict
\* that is never reset), so each call adds to the previous call's tallies.
TallyVotesKept(fam) ==
    LET kept == IF "votes" \in DOMAIN locals THEN locals.votes
                ELSE [bullish |-> 0, bearish |-> 0, neutral |-> 0]
    IN  [bullish |-> kept.bullish + fam.rsi.bull + fam.macd.bull + fam.bb.bull
                     + fam.sma.bull + fam.adx.bull + fam.ema.bull,
         bearish |-> kept.bearish + fam.rsi.bear + fam.macd.bear + fam.bb.bear
                     + fam.sma.bear + fam.adx.bear + fam.ema.bear,
         neutral |-> kept.neutral + fam.rsi.neut + fam.macd.neut + fam.bb.neut
                     + fam.sma.neut + fam.adx.neut + fam.ema.neut]

TallyVotes(fam) ==
    [bullish |-> fam.rsi.bull + fam.macd.bull + fam.bb.bull + fam.sma.bull
                 + fam.adx.bull + fam.ema.bull,
     bearish |-> fam.rsi.bear + fam.macd.bear + fam.bb.bear + fam.sma.bear
                 + fam.adx.bear + fam.ema.bear,
     neutral |-> fam.rsi.neut + fam.macd.neut + fam.bb.neut + fam.sma.neut
                 + fam.adx.neut + fam.ema.neut]

\* Mutant of Direction: a tie goes to bullish.
DirectionTieBullish(votes) ==
    IF votes.bullish >= votes.bearish THEN "bullish"
    ELSE IF votes.bearish > votes.bullish THEN "bearish"
    ELSE "neutral"

\* Mutant of Direction: a direction needs more than half of all votes cast.
DirectionStrictMajority(votes) ==
    IF 2 * votes.bullish > votes.bullish + votes.bearish + votes.neutral THEN "bullish"
    ELSE IF 2 * votes.bearish > votes.bullish + votes.bearish + votes.neutral THEN "bearish"
    ELSE "neutral"

\* Calculate overall direction based on votes
Direction(votes) ==
    IF votes.bullish > votes.bearish THEN "bullish"
    ELSE IF votes.bearish > votes.bullish THEN "bearish"
    ELSE "neutral"

\* Python: `a and b or c or d or e`, i.e. ((a and b) or c or d or e), twice.
IsSupporting(item, direction) ==
    \/ (direction = "bullish" /\ In("bullish", item))
    \/ In("oversold", item) \/ In("> SMA", item) \/ In("lower Bollinger", item)
    \/ (direction = "bearish" /\ In("bearish", item))
    \/ In("overbought", item) \/ In("< SMA", item) \/ In("upper Bollinger", item)

RefineEvidence(fam, direction) ==
    LET supporting == UNION {fam[f].sup : f \in FamilyNames}
        conflicting == UNION {fam[f].con : f \in FamilyNames}
        keep == {item \in supporting : IsSupporting(item, direction) \/ direction = "neutral"}
    IN  [final_supporting |-> keep,
         final_conflicting |-> (supporting \ keep) \cup conflicting]

\* Mutant of AgreementRatio: the agreeing votes are divided by the disagreeing ones.
AgreementRatioOdds(votes, direction) ==
    LET agreeing_votes == IF direction # "neutral" THEN votes[direction] ELSE 0
        disagreeing_votes ==
            IF direction = "bullish" THEN votes.bearish
            ELSE IF direction = "bearish" THEN votes.bullish ELSE 0
    IN  IF disagreeing_votes > 0 THEN Rat(agreeing_votes, disagreeing_votes) ELSE Rat(1, 2)

\* Mutant of AgreementRatio: the neutral votes are counted in the total.
AgreementRatioAllVotes(votes, direction) ==
    IF direction = "neutral" \/ votes.bullish + votes.bearish = 0 THEN Rat(1, 2)
    ELSE Rat(votes[direction], votes.bullish + votes.bearish + votes.neutral)

\* Calculate agreement score
AgreementRatio(votes, direction) ==
    LET agreeing_votes == IF direction # "neutral" THEN votes[direction] ELSE 0
        disagreeing_votes ==
            IF direction = "bullish" THEN votes.bearish
            ELSE IF direction = "bearish" THEN votes.bullish ELSE 0
        total_directional_votes == agreeing_votes + disagreeing_votes
    IN  IF total_directional_votes > 0
        THEN Rat(agreeing_votes, total_directional_votes)
        ELSE Rat(1, 2)

\* scores.get(key, 0)
Get(scores, key) == IF scores[key] = None THEN RInt(0) ELSE scores[key]

\* Mutant of WeightedSum: the agreement bonus is the ratio in percent.
WeightedSumPercentBonus(scores, agreement_ratio) ==
    LET agreement_score == RMul(agreement_ratio, RInt(100))
        t1 == RMul(Get(scores, "rsi"), Rat(8, 100))
        t2 == RMul(Get(scores, "macd"), Rat(8, 100))
        t3 == RMul(Get(scores, "bb"), Rat(8, 100))
        t4 == RMul(Get(scores, "sma"), Rat(8, 100))
        t5 == RMul(Get(scores, "adx"), Rat(8, 100))
        t6 == RMul(Get(scores, "ema"), Rat(8, 100))
        t7 == RMul(Get(scores, "market_context"), Rat(25, 100))
        t8 == RMul(Get(scores, "twitter_sentiment"), Rat(15, 100))
        t9 == RMul(Get(scores, "data_quality"), Rat(10, 100))
    IN  RAdd(RAdd(RAdd(RAdd(RAdd(RAdd(RAdd(RAdd(RAdd(t1, t2), t3), t4), t5), t6),
                            t7), t8), t9), agreement_score)

\* Final score calculation (weighted sum of components + agreement), evaluated
\* on `scores` as it is when line 460 runs.
WeightedSum(scores, agreement_ratio) ==
    LET agreement_score == RMul(agreement_ratio, RInt(10))
        t1 == RMul(Get(scores, "rsi"), Rat(8, 100))
        t2 == RMul(Get(scores, "macd"), Rat(8, 100))
        t3 == RMul(Get(scores, "bb"), Rat(8, 100))
        t4 == RMul(Get(scores, "sma"), Rat(8, 100))
        t5 == RMul(Get(scores, "adx"), Rat(8, 100))
        t6 == RMul(Get(scores, "ema"), Rat(8, 100))
        t7 == RMul(Get(scores, "market_context"), Rat(25, 100))
        t8 == RMul(Get(scores, "twitter_sentiment"), Rat(15, 100))
        t9 == RMul(Get(scores, "data_quality"), Rat(10, 100))
    IN  RAdd(RAdd(RAdd(RAdd(RAdd(RAdd(RAdd(RAdd(RAdd(t1, t2), t3), t4), t5), t6),
                            t7), t8), t9), agreement_score)

\* `scores` after step 7: the six families and data_quality are set, the
\* market_context and twitter_sentiment keys are not.
TechnicalScores(fam, tech_indicators) ==
    [rsi |-> fam.rsi.score, macd |-> fam.macd.score, bb |-> fam.bb.score,
     sma |-> fam.sma.score, adx |-> fam.adx.score, ema |-> fam.ema.score,
     data_quality |-> DataQuality(tech_indicators),
     market_context |-> None, twitter_sentiment |-> None]

(***************************************************************************)
(* calculate_confidence_score, part 3: market context.                     *)
(*                                                                         *)
(* Shapes of the optional inputs.  A dict-valued input or component is a   *)
(* record with a field `kind`:                                             *)
(*   "absent"  the key is missing, or its value is None or falsy ({});     *)
(*   "bad"     a truthy value that is no dict: `.get` raises (a str, a     *)
(*             list, a number);                                            *)
(*   "dict"    a dict; its sub-fields follow.                              *)
(* A numeric sub-field is None (missing), a rational, or WrongKind: a      *)
(* value such as 'abc' on which int(), `<`, abs() and a `:.2f` format      *)
(* raise.  A text sub-field is a string, "None" standing for a missing     *)
(* one.                                                                    *)
(*                                                                         *)
(* The try block runs the five components in order; a raise ends the block *)
(* at once and control goes to the except clause, which only prints.  A    *)
(* step therefore yields what it added to market_score, context_adjustment *)
(* and context_notes before it finished or raised.                         *)
(***************************************************************************)
WrongKind == <<0, 0>>

Step(raised, score, adj, notes) ==
    [raised |-> raised, score |-> score, adj |-> adj, notes |-> notes]

NoStep == Step(FALSE, 0, 0, {})

Raise == Step(TRUE, 0, 0, {})

\* Sequencing inside the try block: nothing after a raise runs.
Then(acc, step) ==
    IF acc.raised THEN acc
    ELSE Step(step.raised, acc.score + step.score, acc.adj + step.adj,
              acc.notes \cup step.notes)

\* --- Fear & Greed Index Analysis (0-10 points) ---
\* Mutant of FearGreedBullish: greed is read as support (momentum, not contrarian).
FearGreedBullishMomentum(fg_value) ==
    IF fg_value > 75 THEN
        Step(FALSE, 10, 10,
             {"Extreme Fear ({fg_value}) strongly supports bullish signal (contrarian)"})
    ELSE IF fg_value > 60 THEN
        Step(FALSE, 7, 5, {"Fear ({fg_value}) supports bullish signal (contrarian)"})
    ELSE IF fg_value < 25 THEN
        Step(FALSE, 0, -10, {"Extreme Greed ({fg_value}) conflicts with bullish signal"})
    ELSE IF fg_value < 40 THEN
        Step(FALSE, 2, -5, {"Greed ({fg_value}) slightly conflicts with bullish signal"})
    ELSE Step(FALSE, 5, 0, {"Neutral market sentiment ({fg_value})"})

\* direction == 'bullish'
FearGreedBullish(fg_value) ==
    IF fg_value > 75 THEN
        Step(FALSE, 0, -10, {"Extreme Greed ({fg_value}) conflicts with bullish signal"})
    ELSE IF fg_value > 60 THEN
        Step(FALSE, 2, -5, {"Greed ({fg_value}) slightly conflicts with bullish signal"})
    ELSE IF fg_value < 25 THEN
        Step(FALSE, 10, 10,
             {"Extreme Fear ({fg_value}) strongly supports bullish signal (contrarian)"})
    ELSE IF fg_value < 40 THEN
        Step(FALSE, 7, 5, {"Fear ({fg_value}) supports bullish signal (contrarian)"})
    ELSE Step(FALSE, 5, 0, {"Neutral market sentiment ({fg_value})"})

\* direction == 'bearish'
FearGreedBearish(fg_value) ==
    IF fg_value > 75 THEN
        Step(FALSE, 10, 10, {"Extreme Greed ({fg_value}) strongly supports bearish signal"})
    ELSE IF fg_value > 60 THEN
        Step(FALSE, 7, 5, {"Greed ({fg_value}) supports bearish signal"})
    ELSE IF fg_value < 25 THEN
        Step(FALSE, 0, -10,
             {"Extreme Fear ({fg_value}) conflicts with bearish signal (contrarian)"})
    ELSE IF fg_value < 40 THEN
        Step(FALSE, 2, -5,
             {"Fear ({fg_value}) slightly conflicts with bearish signal (contrarian)"})
    ELSE Step(FALSE, 5, 0, {"Neutral market sentiment ({fg_value})"})

\* neutral direction
FearGreedNeutral(fg_value) ==
    IF fg_value > 70 \/ fg_value < 30 THEN
        Step(FALSE, 5, 0,
             {"Extreme market sentiment ({fg_value}) with neutral technical signals"})
    ELSE
        Step(FALSE, 3, 0,
             {"Neutral market sentiment ({fg_value}) aligns with neutral technical signals"})

\* `if fear_greed and fear_greed.get('value')`: a value of None or 0 is falsy;
\* fg_value = int(value).
FearGreedStep(fear_greed, direction) ==
    IF fear_greed.kind = "absent" THEN NoStep
    ELSE IF fear_greed.kind = "bad" THEN Raise
    ELSE IF fear_greed.value = None \/ fear_greed.value = RInt(0) THEN NoStep
    ELSE IF fear_greed.value = WrongKind THEN Raise
    ELSE
        LET fg_value == fear_greed.value[1] \div fear_greed.value[2]
        IN  IF direction = "bullish" THEN FearGreedBullish(fg_value)
            ELSE IF direction = "bearish" THEN FearGreedBearish(fg_value)
            ELSE FearGreedNeutral(fg_value)

\* --- Fear & Greed Trend Analysis (0-5 points) ---
FearGreedTrendStep(fear_greed_trend, direction) ==
    IF fear_greed_trend.kind = "absent" THEN NoStep
    ELSE IF fear_greed_trend.kind = "bad" THEN Raise
    ELSE
        LET trend == fear_greed_trend.trend
            rising == fear_greed_trend.trend_direction \in {"increasing", "strongly_increasing"}
            falling == fear_greed_trend.trend_direction \in {"decreasing", "strongly_decreasing"}
            fear == trend = "extreme_fear" \/ trend = "fear"
            greed == trend = "extreme_greed" \/ trend = "greed"
            info == Step(FALSE, 0, 0, {"F&G trend: {trend} ({avg_value}, {trend_direction})"})
        IN  IF direction = "bullish" THEN
                IF fear THEN
                    IF rising
                    THEN Then(info, Step(FALSE, 5, 5,
                              {"Fear increasing - potential bottoming pattern (bullish)"}))
                    ELSE Then(info, Step(FALSE, 3, 3,
                              {"Fear stable/decreasing - contrarian bullish signal"}))
                ELSE IF greed THEN
                    IF rising
                    THEN Then(info, Step(FALSE, 0, -5,
                              {"Greed increasing - potential topping pattern (bearish)"}))
                    ELSE Then(info, Step(FALSE, 1, -2,
                              {"Greed stable/decreasing - slightly bearish signal"}))
                ELSE info
            ELSE IF direction = "bearish" THEN
                IF greed THEN
                    IF rising
                    THEN Then(info, Step(FALSE, 5, 5,
                              {"Greed increasing - potential topping pattern (bearish)"}))
                    ELSE Then(info, Step(FALSE, 3, 3,
                              {"Greed stable/decreasing - bearish signal"}))
                ELSE IF fear THEN
                    IF falling
                    THEN Then(info, Step(FALSE, 0, -5,
                              {"Fear decreasing - potential bottoming pattern (bullish)"}))
                    ELSE Then(info, Step(FALSE, 1, -2,
                              {"Fear stable/increasing - slightly bullish signal"}))
                ELSE info
            ELSE info

\* --- Market Trend Analysis (0-10 points) ---
GlobalMarketStep(global_market, direction) ==
    IF global_market.kind = "absent" THEN NoStep
    ELSE IF global_market.kind = "bad" THEN Raise
    ELSE IF global_market.change = None THEN NoStep
    ELSE IF global_market.change = WrongKind THEN Raise
    ELSE
        LET mkt_cap_change == global_market.change
        IN  IF direction = "bullish" THEN
                IF RLt(mkt_cap_change, RInt(-5)) THEN
                    Step(FALSE, 0, -10,
                         {"Strong market down ({mkt_cap_change:.2f}%) conflicts with bullish signal"})
                ELSE IF RLt(mkt_cap_change, RInt(-2)) THEN
                    Step(FALSE, 2, -5,
                         {"Market down ({mkt_cap_change:.2f}%) conflicts with bullish signal"})
                ELSE IF RLt(RInt(5), mkt_cap_change) THEN
                    Step(FALSE, 10, 10,
                         {"Strong market up ({mkt_cap_change:.2f}%) strongly supports bullish signal"})
                ELSE IF RLt(RInt(2), mkt_cap_change) THEN
                    Step(FALSE, 7, 5,
                         {"Market up ({mkt_cap_change:.2f}%) supports bullish signal"})
                ELSE Step(FALSE, 5, 0, {"Stable market ({mkt_cap_change:.2f}%)"})
            ELSE IF direction = "bearish" THEN
                IF RLt(mkt_cap_change, RInt(-5)) THEN
                    Step(FALSE, 10, 10,
                         {"Strong market down ({mkt_cap_change:.2f}%) strongly supports bearish signal"})
                ELSE IF RLt(mkt_cap_change, RInt(-2)) THEN
                    Step(FALSE, 7, 5,
                         {"Market down ({mkt_cap_change:.2f}%) supports bearish signal"})
                ELSE IF RLt(RInt(5), mkt_cap_change) THEN
                    Step(FALSE, 0, -10,
                         {"Strong market up ({mkt_cap_change:.2f}%) conflicts with bearish signal"})
                ELSE IF RLt(RInt(2), mkt_cap_change) THEN
                    Step(FALSE, 2, -5,
                         {"Market up ({mkt_cap_change:.2f}%) conflicts with bearish signal"})
                ELSE Step(FALSE, 5, 0, {"Stable market ({mkt_cap_change:.2f}%)"})
            ELSE
                IF RLt(RInt(5), RAbs(mkt_cap_change)) THEN
                    Step(FALSE, 5, 0,
                         {"Strong market movement ({mkt_cap_change:.2f}%) with neutral technical signals"})
                ELSE
                    Step(FALSE, 3, 0,
                         {"Stable market ({mkt_cap_change:.2f}%) aligns with neutral technical signals"})

\* --- Market Volatility Analysis (0-5 points) ---
MarketVolatilityStep(market_volatility, direction) ==
    IF market_volatility.kind = "absent" THEN NoStep
    ELSE IF market_volatility.kind = "bad" THEN Raise
    ELSE IF market_volatility.volatility_pattern = "None"
            \/ market_volatility.avg_volatility_24h = None THEN NoStep
    ELSE IF market_volatility.avg_volatility_24h = WrongKind THEN Raise
    ELSE
        LET info == Step(FALSE, 0, 0,
                         {"Market volatility: {volatility_pattern} ({avg_volatility_24h:.2f}% 24h)"})
            directional == direction \in {"bullish", "bearish"}
        IN  IF market_volatility.volatility_pattern = "highly_volatile" THEN
                IF directional
                THEN Then(info, Step(FALSE, 5, 3, {"High volatility strengthens {direction} signal"}))
                ELSE Then(info, Step(FALSE, 2, 0,
                          {"High volatility with neutral signals suggests caution"}))
            ELSE IF market_volatility.volatility_pattern = "stable" THEN
                IF directional
                THEN Then(info, Step(FALSE, 2, 0,
                          {"Low volatility may weaken {direction} signal strength"}))
                ELSE Then(info, Step(FALSE, 4, 2,
                          {"Low volatility confirms neutral/sideways bias"}))
            ELSE info

\* --- BTC Dominance Analysis (0-5 points) ---
BtcDominanceStep(btc_dominance_data, direction) ==
    IF btc_dominance_data.kind = "absent" THEN NoStep
    ELSE IF btc_dominance_data.kind = "bad" THEN Raise
    ELSE IF btc_dominance_data.btc_dominance \in {None, WrongKind} THEN Raise
    ELSE
        LET note1 == Step(FALSE, 0, 0,
                          {"BTC dominance: {dominance_level} ({btc_dominance:.2f}%, {market_implication})"})
            note2 == Step(FALSE, 0, 0, {"BTC/ETH ratio: {btc_eth_ratio:.2f} ({ratio_interpretation})"})
            market_implication == btc_dominance_data.market_implication
        IN  IF btc_dominance_data.btc_eth_ratio \in {None, WrongKind}
            THEN Then(note1, Raise)
            ELSE Then(Then(note1, note2),
                 IF market_implication = "altcoin_bullish" /\ direction = "bullish" THEN
                    Step(FALSE, 5, 3, {"Low BTC dominance supports bullish altcoin signal"})
                 ELSE IF market_implication = "altcoin_bearish" /\ direction = "bearish" THEN
                    Step(FALSE, 5, 3, {"High BTC dominance supports bearish altcoin signal"})
                 ELSE IF market_implication = "altcoin_bullish" /\ direction = "bearish" THEN
                    Step(FALSE, 1, -2, {"Low BTC dominance conflicts with bearish altcoin signal"})
                 ELSE IF market_implication = "altcoin_bearish" /\ direction = "bullish" THEN
                    Step(FALSE, 1, -2, {"High BTC dominance conflicts with bullish altcoin signal"})
                 ELSE
                    Step(FALSE, 3, 0, {"Neutral BTC dominance impact on {direction} signal"}))

IMin(a, b) == IF b < a THEN b ELSE a

IMax(a, b) == IF a < b THEN b ELSE a

\* The `if market_context:` block with its try/except.  `stored` says whether
\* scores['market_context'] was assigned; market_score is capped at 30 there.
\* context_adjustment and context_notes are the function's locals, so what was
\* added to them before a raise is still there after the except clause.
MarketContextAnalysis(market_context, direction) ==
    IF market_context.kind = "absent" THEN
        [stored |-> FALSE, raised |-> FALSE, market_score |-> 0,
         context_adjustment |-> 0, context_notes |-> {}]
    ELSE IF market_context.kind = "bad" THEN
        [stored |-> FALSE, raised |-> TRUE, market_score |-> 0,
         context_adjustment |-> 0, context_notes |-> {}]
    ELSE
        LET run == Then(Then(Then(Then(
                       FearGreedStep(market_context.fear_greed, direction),
                       FearGreedTrendStep(market_context.fear_greed_trend, direction)),
                       GlobalMarketStep(market_context.global_market, direction)),
                       MarketVolatilityStep(market_context.market_volatility, direction)),
                       BtcDominanceStep(market_context.btc_dominance, direction))
        IN  [stored |-> ~run.raised, raised |-> run.raised,
             market_score |-> IMin(30, run.score),
             context_adjustment |-> run.adj, context_notes |-> run.notes]

(***************************************************************************)
(* calculate_confidence_score, part 4: Twitter sentiment.                  *)
(* twitter_sentiment is absent, bad or a dict (as above).  In a dict,      *)
(* overall_sentiment is a string, "None" standing for a value that is no   *)
(* string (None): comparing it is harmless, .capitalize() raises.          *)
(* key_tweets is [kind |-> "list", len |-> n] or, for a value without      *)
(* len() such as None, [kind |-> "bad", len |-> 0].                        *)
(***************************************************************************)
TwitterBaseStep(overall_sentiment, direction) ==
    IF direction = "bullish" THEN
        IF overall_sentiment = "bullish" THEN
            Step(FALSE, 15, 10,
                 {"Bullish Twitter sentiment strongly supports bullish technical signals"})
        ELSE IF overall_sentiment = "bearish" THEN
            Step(FALSE, 0, -10,
                 {"Bearish Twitter sentiment conflicts with bullish technical signals"})
        ELSE Step(FALSE, 5, 0, {"Neutral Twitter sentiment with bullish technical signals"})
    ELSE IF direction = "bearish" THEN
        IF overall_sentiment = "bearish" THEN
            Step(FALSE, 15, 10,
                 {"Bearish Twitter sentiment strongly supports bearish technical signals"})
        ELSE IF overall_sentiment = "bullish" THEN
            Step(FALSE, 0, -10,
                 {"Bullish Twitter sentiment conflicts with bearish technical signals"})
        ELSE Step(FALSE, 5, 0, {"Neutral Twitter sentiment with bearish technical signals"})
    ELSE
        IF overall_sentiment # "neutral" THEN
            IF overall_sentiment = "None" THEN Raise
            ELSE Step(FALSE, 10, 0,
                      {"{overall_sentiment.capitalize()} Twitter sentiment with neutral technical signals"})
        ELSE Step(FALSE, 5, 0,
                  {"Neutral Twitter sentiment aligns with neutral technical signals"})

KeyTweetsStep(key_tweets) ==
    IF key_tweets.kind = "bad" THEN Raise
    ELSE IF key_tweets.len >= 3
         THEN Step(FALSE, 5, 0, {"Multiple key tweets/themes identified ({len(key_tweets)})"})
         ELSE NoStep

\* The `if twitter_sentiment:` block with its try/except; twitter_score is
\* capped at 20 where it is stored.
TwitterAnalysis(twitter_sentiment, direction) ==
    IF twitter_sentiment.kind = "absent" THEN
        [stored |-> FALSE, raised |-> FALSE, twitter_score |-> 0,
         twitter_adjustment |-> 0, twitter_notes |-> {}]
    ELSE IF twitter_sentiment.kind = "bad" THEN
        [stored |-> FALSE, raised |-> TRUE, twitter_score |-> 0,
         twitter_adjustment |-> 0, twitter_notes |-> {}]
    ELSE
        LET run == Then(TwitterBaseStep(twitter_sentiment.overall_sentiment, direction),
                        KeyTweetsStep(twitter_sentiment.key_tweets))
        IN  [stored |-> ~run.raised, raised |-> run.raised,
             twitter_score |-> IMin(20, run.score),
             twitter_adjustment |-> run.adj, twitter_notes |-> run.notes]

(***************************************************************************)
(* generate_trading_signal.  The tallies are rationals: the damping step   *)
(* subtracts 0.5.                                                          *)
(***************************************************************************)
\* 1. Base signal on direction and confidence
BaseVotes(confidence_score, direction) ==
    LET n == IF confidence_score >= 60 THEN 2
             ELSE IF confidence_score >= 30 THEN 1 ELSE 0
    IN  IF direction = "bullish" THEN [bull |-> RInt(n), bear |-> RInt(0)]
        ELSE IF direction = "bearish" THEN [bull |-> RInt(0), bear |-> RInt(n)]
        ELSE [bull |-> RInt(0), bear |-> RInt(0)]

\* 2. RSI conditions (an if/elif chain, kept in the source's order)
RsiVotes(rsi) ==
    IF rsi = None THEN [bull |-> RInt(0), bear |-> RInt(0)]
    ELSE IF RLe(rsi, RInt(30)) THEN [bull |-> RInt(1), bear |-> RInt(0)]
    ELSE IF RLe(rsi, RInt(20)) THEN [bull |-> RInt(2), bear |-> RInt(0)]
    ELSE IF RLe(RInt(70), rsi) THEN [bull |-> RInt(0), bear |-> RInt(1)]
    ELSE IF RLe(RInt(80), rsi) THEN [bull |-> RInt(0), bear |-> RInt(2)]
    ELSE [bull |-> RInt(0), bear |-> RInt(0)]

\* 3. MACD conditions, with the near-crossover reduction
MacdVotes(macd, macd_signal, macd_hist) ==
    IF macd = None \/ macd_signal = None \/ macd_hist = None
    THEN [bull |-> RInt(0), bear |-> RInt(0)]
    ELSE
        LET tenth == RMul(Rat(1, 10), RAbs(macd))
            bull0 == IF RLt(macd_signal, macd)
                     THEN IF RLt(RInt(0), macd_hist) /\ RLt(tenth, macd_hist) THEN 2 ELSE 1
                     ELSE 0
            bear0 == IF ~RLt(macd_signal, macd) /\ RLt(macd, macd_signal)
                     THEN IF RLt(macd_hist, RInt(0)) /\ RLt(tenth, RAbs(macd_hist))
                          THEN 2 ELSE 1
                     ELSE 0
            close == /\ RLt(RAbs(RSub(macd, macd_signal)), RMul(Rat(5, 100), RAbs(macd)))
                     /\ macd # RInt(0)
        IN  IF close THEN
                IF RLt(macd_signal, macd)
                THEN [bull |-> RSub(RInt(bull0), Rat(1, 2)), bear |-> RInt(bear0)]
                ELSE [bull |-> RInt(bull0), bear |-> RSub(RInt(bear0), Rat(1, 2))]
            ELSE [bull |-> RInt(bull0), bear |-> RInt(bear0)]

\* Mutant of EmaVotes: the comparisons are not strict.
EmaVotesNonStrict(ema_9, ema_21, ema_55, price) ==
    IF ema_9 = None \/ ema_21 = None \/ ema_55 = None
    THEN [bull |-> RInt(0), bear |-> RInt(0)]
    ELSE
        LET a == IF RLe(ema_21, ema_9) /\ RLe(ema_55, ema_21) THEN <<2, 0>>
                 ELSE IF RLe(ema_21, ema_9) THEN <<1, 0>>
                 ELSE IF RLe(ema_9, ema_21) /\ RLe(ema_21, ema_55) THEN <<0, 2>>
                 ELSE IF RLe(ema_9, ema_21) THEN <<0, 1>>
                 ELSE <<0, 0>>
            p == IF price = None THEN <<0, 0>>
                 ELSE IF RLe(ema_55, price) THEN <<1, 0>>
                 ELSE IF RLe(price, ema_55) THEN <<0, 1>>
                 ELSE <<0, 0>>
        IN  [bull |-> RInt(a[1] + p[1]), bear |-> RInt(a[2] + p[2])]

\* 4. EMA conditions
EmaVotes(ema_9, ema_21, ema_55, price) ==
    IF ema_9 = None \/ ema_21 = None \/ ema_55 = None
    THEN [bull |-> RInt(0), bear |-> RInt(0)]
    ELSE
        LET a == IF RLt(ema_21, ema_9) /\ RLt(ema_55, ema_21) THEN <<2, 0>>
                 ELSE IF RLt(ema_21, ema_9) THEN <<1, 0>>
                 ELSE IF RLt(ema_9, ema_21) /\ RLt(ema_21, ema_55) THEN <<0, 2>>
                 ELSE IF RLt(ema_9, ema_21) THEN <<0, 1>>
                 ELSE <<0, 0>>
            p == IF price = None THEN <<0, 0>>
                 ELSE IF RLt(ema_55, price) THEN <<1, 0>>
                 ELSE IF RLt(price, ema_55) THEN <<0, 1>>
                 ELSE <<0, 0>>
        IN  [bull |-> RInt(a[1] + p[1]), bear |-> RInt(a[2] + p[2])]

\* 5. ADX conditions
AdxVotes(adx, plus_di, minus_di) ==
    IF adx = None \/ plus_di = None \/ minus_di = None
    THEN [bull |-> RInt(0), bear |-> RInt(0)]
    ELSE IF RLe(RInt(25), adx) THEN
        LET n == IF RLe(RInt(40), adx) THEN 2 ELSE 1
        IN  IF RLt(minus_di, plus_di) THEN [bull |-> RInt(n), bear |-> RInt(0)]
            ELSE IF RLt(plus_di, minus_di) THEN [bull |-> RInt(0), bear |-> RInt(n)]
            ELSE [bull |-> RInt(0), bear |-> RInt(0)]
    ELSE [bull |-> RInt(0), bear |-> RInt(0)]

SignalVotes(confidence_score, direction, price, tech_indicators) ==
    LET b == BaseVotes(confidence_score, direction)
        r == RsiVotes(tech_indicators.rsi)
        m == MacdVotes(tech_indicators.macd, tech_indicators.macd_signal,
                       tech_indicators.macd_hist)
        e == EmaVotes(tech_indicators.ema_9, tech_indicators.ema_21,
                      tech_indicators.ema_55, price)
        a == AdxVotes(tech_indicators.adx, tech_indicators.adx_plus_di,
                      tech_indicators.adx_minus_di)
    IN  [base |-> b, rsi |-> r, macd |-> m, ema |-> e, adx |-> a,
         bullish_signals |-> RAdd(RAdd(RAdd(RAdd(b.bull, r.bull), m.bull), e.bull), a.bull),
         bearish_signals |-> RAdd(RAdd(RAdd(RAdd(b.bear, r.bear), m.bear), e.bear), a.bear)]

\* Mutant of VoteSignal: the sell thresholds mirror the buy thresholds.
VoteSignalSymmetric(signal_strength) ==
    IF RLe(RInt(6), signal_strength) THEN "STRONG BUY"
    ELSE IF RLe(RInt(3), signal_strength) THEN "BUY"
    ELSE IF RLe(signal_strength, RInt(-6)) THEN "STRONG SELL"
    ELSE IF RLe(signal_strength, RInt(-3)) THEN "SELL"
    ELSE "HOLD"

\* 6. Determine final signal based on bullish vs bearish signals
VoteSignal(signal_strength) ==
    IF RLe(RInt(6), signal_strength) THEN "STRONG BUY"
    ELSE IF RLe(RInt(3), signal_strength) THEN "BUY"
    ELSE IF RLe(signal_strength, RInt(-7)) THEN "STRONG SELL"
    ELSE IF RLe(signal_strength, RInt(-4)) THEN "SELL"
    ELSE "HOLD"

\* Mutant of RsiOverride: the override ignores the side the votes chose.
RsiOverrideAnySide(signal, rsi, adx, plus_di, minus_di) ==
    IF rsi = None THEN signal
    ELSE IF RLe(rsi, RInt(20)) THEN
        IF adx # None /\ RLe(RInt(25), adx) /\ plus_di # None /\ minus_di # None
           /\ RLt(minus_di, plus_di)
        THEN "STRONG BUY" ELSE "BUY"
    ELSE IF RLe(RInt(80), rsi) THEN
        IF adx # None /\ RLe(RInt(25), adx) /\ plus_di # None /\ minus_di # None
           /\ RLt(plus_di, minus_di)
        THEN "STRONG SELL" ELSE "SELL"
    ELSE signal

\* Mutant of RsiOverride: the ADX confirmation is not read, the override is BUY/SELL.
RsiOverrideNoAdx(signal, rsi, adx, plus_di, minus_di) ==
    IF rsi = None THEN signal
    ELSE IF RLe(rsi, RInt(20)) /\ signal \notin {"STRONG SELL", "SELL"} THEN "BUY"
    ELSE IF RLe(RInt(80), rsi) /\ signal \notin {"STRONG BUY", "BUY"} THEN "SELL"
    ELSE signal

\* 7. Special case: extremely oversold/overbought conditions
RsiOverride(signal, rsi, adx, plus_di, minus_di) ==
    IF rsi = None THEN signal
    ELSE IF RLe(rsi, RInt(20)) /\ signal \notin {"STRONG SELL", "SELL"} THEN
        IF adx # None /\ RLe(RInt(25), adx) /\ plus_di # None /\ minus_di # None
           /\ RLt(minus_di, plus_di)
        THEN "STRONG BUY" ELSE "BUY"
    ELSE IF RLe(RInt(80), rsi) /\ signal \notin {"STRONG BUY", "BUY"} THEN
        IF adx # None /\ RLe(RInt(25), adx) /\ plus_di # None /\ minus_di # None
           /\ RLt(plus_di, minus_di)
        THEN "STRONG SELL" ELSE "SELL"
    ELSE signal

\* The function's locals when it returns: what each of the steps 1 to 5 added
\* to the two tallies, the two tallies, their difference, the signal of step 6
\* and the returned signal of step 7.
SignalLocals(confidence_score, direction, price, tech_indicators) ==
    LET v == SignalVotes(confidence_score, direction, price, tech_indicators)
        signal_strength == RSub(v.bullish_signals, v.bearish_signals)
        vote_signal == VoteSignal(signal_strength)
    IN  [steps |-> v,
         bullish_signals |-> v.bullish_signals,
         bearish_signals |-> v.bearish_signals,
         signal_strength |-> signal_strength,
         vote_signal |-> vote_signal,
         ret |-> RsiOverride(vote_signal, tech_indicators.rsi,
                             tech_indicators.adx, tech_indicators.adx_plus_di,
                             tech_indicators.adx_minus_di)]

generate_trading_signal(confidence_score, direction, price, tech_indicators) ==
    SignalLocals(confidence_score, direction, price, tech_indicators).ret

(***************************************************************************)
(* calculate_confidence_score, part 5: the whole function.                 *)
(***************************************************************************)
\* Mutant of ExceptClause: the clause lets the exception through.
ExceptClauseReraises(raised) == raised

\* `except Exception as e: print(...)`: whether an exception raised inside the
\* try block leaves the try statement.  The clause catches every Exception.
ExceptClause(raised) == FALSE

\* Add context notes / Twitter notes to supporting/conflicting lists
FileContextNotes(context_notes) ==
    [sup |-> {"Context: " \o note : note \in {n \in context_notes : In("supports", n)}},
     con |-> {"Context: " \o note :
                 note \in {n \in context_notes : ~In("supports", n) /\ In("conflicts", n)}}]

FileTwitterNotes(twitter_notes) ==
    [sup |-> {"Twitter: " \o note :
                 note \in {n \in twitter_notes : In("supports", n) \/ In("aligns", n)}},
     con |-> {"Twitter: " \o note :
                 note \in {n \in twitter_notes :
                              ~(In("supports", n) \/ In("aligns", n)) /\ In("conflicts", n)}}]

\* Mutant of ClampScore: the lower clamp is forgotten.
ClampScoreNoFloor(overall_score) == IMin(100, Round(overall_score))

\* overall_score = max(0, min(100, round(overall_score)))
ClampScore(overall_score) == IMax(0, IMin(100, Round(overall_score)))

\* Mutant of ReturnValue: a context that conflicts with the technical direction
\* weakens the returned direction to neutral.
ReturnValueContextDirection(direction, evidence, agreement_ratio, scores, mc, tw, overall_score, cnotes, tnotes, price, tech_indicators) ==
    [raised |-> ExceptClause(mc.raised) \/ ExceptClause(tw.raised),
     overall_score |-> overall_score,
     direction |-> IF mc.context_adjustment < 0 THEN "neutral" ELSE direction,
     signal |-> generate_trading_signal(overall_score, direction, price, tech_indicators),
     factor_scores |->
         [scores EXCEPT
             !.market_context = IF mc.stored THEN RInt(mc.market_score) ELSE None,
             !.twitter_sentiment = IF tw.stored THEN RInt(tw.twitter_score) ELSE None],
     supporting_indicators |-> evidence.final_supporting \cup cnotes.sup \cup tnotes.sup,
     conflicting_indicators |-> evidence.final_conflicting \cup cnotes.con \cup tnotes.con,
     indicator_agreement |-> Round2(agreement_ratio)]

\* Return structured confidence data (`raised`: an exception left the function
\* instead).
ReturnValue(direction, evidence, agreement_ratio, scores, mc, tw, overall_score, cnotes, tnotes, price, tech_indicators) ==
    [raised |-> ExceptClause(mc.raised) \/ ExceptClause(tw.raised),
     overall_score |-> overall_score,
     direction |-> direction,
     signal |-> generate_trading_signal(overall_score, direction, price, tech_indicators),
     factor_scores |->
         [scores EXCEPT
             !.market_context = IF mc.stored THEN RInt(mc.market_score) ELSE None,
             !.twitter_sentiment = IF tw.stored THEN RInt(tw.twitter_score) ELSE None],
     supporting_indicators |-> evidence.final_supporting \cup cnotes.sup \cup tnotes.sup,
     conflicting_indicators |-> evidence.final_conflicting \cup cnotes.con \cup tnotes.con,
     indicator_agreement |-> Round2(agreement_ratio)]

\* From the adjusted sum on: clamp, file the notes, resolve the signal, return.
\* The record holds the function's locals when it returns, and under `ret`
\* the returned dict.
AfterAdjustment(votes, direction, evidence, agreement_ratio, scores, weighted, mc, tw, adjusted, price, tech_indicators) ==
    [votes |-> votes,
     agreement_ratio |-> agreement_ratio,
     weighted |-> weighted,
     market |-> mc,
     twitter |-> tw,
     adjusted |-> adjusted,
     ret |-> ReturnValue(direction, evidence, agreement_ratio, scores, mc, tw,
                         ClampScore(adjusted), FileContextNotes(mc.context_notes),
                         FileTwitterNotes(tw.twitter_notes), price, tech_indicators)]

\* overall_score += context_adjustment + twitter_adjustment
AfterAnalyses(votes, direction, evidence, agreement_ratio, scores, weighted, mc, tw, price, tech_indicators) ==
    AfterAdjustment(votes, direction, evidence, agreement_ratio, scores, weighted, mc, tw,
                    RAdd(weighted, RInt(mc.context_adjustment + tw.twitter_adjustment)),
                    price, tech_indicators)

\* The weighted sum, then the market context block and the Twitter block.
AfterAgreement(votes, direction, evidence, agreement_ratio, scores, tech_indicators, price, market_context, twitter_sentiment) ==
    AfterAnalyses(votes, direction, evidence, agreement_ratio, scores,
                  WeightedSum(scores, agreement_ratio),
                  MarketContextAnalysis(market_context, direction),
                  TwitterAnalysis(twitter_sentiment, direction),
                  price, tech_indicators)

\* The evidence lists and the agreement ratio of the direction.
AfterDirection(fam, votes, direction, tech_indicators, price, market_context, twitter_sentiment) ==
    AfterAgreement(votes, direction, RefineEvidence(fam, direction),
                   AgreementRatio(votes, direction), TechnicalScores(fam, tech_indicators),
                   tech_indicators, price, market_context, twitter_sentiment)

\* The direction of the votes.
AfterVotes(fam, votes, tech_indicators, price, market_context, twitter_sentiment) ==
    AfterDirection(fam, votes, Direction(votes), tech_indicators, price, market_context,
                   twitter_sentiment)

\* The votes of the six technical families.
AfterFamilies(fam, tech_indicators, price, market_context, twitter_sentiment) ==
    AfterVotes(fam, TallyVotes(fam), tech_indicators, price, market_context,
               twitter_sentiment)

\* The whole function, statement after statement.
ScoreLocals(tech_indicators, price, market_context, twitter_sentiment) ==
    AfterFamilies(TechnicalFamilies(tech_indicators, price), tech_indicators, price,
                  market_context, twitter_sentiment)

calculate_confidence_score(tech_indicators, price, market_context, twitter_sentiment) ==
    ScoreLocals(tech_indicators, price, market_context, twitter_sentiment).ret

(***************************************************************************)
(* Inputs.  A snapshot is a record over the 14 fixed keys; a missing key   *)
(* and a None value read the same through tech_indicators.get(key).        *)
(***************************************************************************)
Snapshot(rsi, macd3, sma_50, ema3, bb3, adx3) ==
    [rsi |-> rsi, macd |-> macd3[1], macd_signal |-> macd3[2], macd_hist |-> macd3[3],
     sma_50 |-> sma_50, ema_9 |-> ema3[1], ema_21 |-> ema3[2], ema_55 |-> ema3[3],
     bb_upper |-> bb3[1], bb_middle |-> bb3[2], bb_lower |-> bb3[3],
     adx |-> adx3[1], adx_plus_di |-> adx3[2], adx_minus_di |-> adx3[3]]

\* The snapshot of src/test_market_context.py (bullish at price 105).
BaseSnapshot ==
    Snapshot(RInt(55), <<Rat(1, 2), Rat(1, 5), Rat(3, 10)>>, RInt(98),
             <<RInt(102), RInt(101), RInt(100)>>,
             <<RInt(110), RInt(100), RInt(90)>>,
             <<RInt(25), RInt(20), RInt(15)>>)

\* The snapshot with the keys of `missing` set to None.
Without(snapshot, missing) ==
    [k \in expected_indicators |-> IF k \in missing THEN None ELSE snapshot[k]]

\* Optional inputs and their components.
FearGreed(kind, value) == [kind |-> kind, value |-> value]

FearGreedTrend(kind, trend, trend_direction) ==
    [kind |-> kind, trend |-> trend, trend_direction |-> trend_direction]

GlobalMarket(kind, change) == [kind |-> kind, change |-> change]

MarketVolatility(kind, volatility_pattern, avg_volatility_24h) ==
    [kind |-> kind, volatility_pattern |-> volatility_pattern,
     avg_volatility_24h |-> avg_volatility_24h]

BtcDominance(kind, btc_dominance, market_implication, btc_eth_ratio) ==
    [kind |-> kind, btc_dominance |-> btc_dominance,
     market_implication |-> market_implication, btc_eth_ratio |-> btc_eth_ratio]

NoFearGreed == FearGreed("absent", None)

NoTrend == FearGreedTrend("absent", "None", "None")

NoGlobalMarket == GlobalMarket("absent", None)

NoVolatility == MarketVolatility("absent", "None", None)

NoBtc == BtcDominance("absent", None, "None", None)

MarketContext(kind, fear_greed, fear_greed_trend, global_market, market_volatility, btc_dominance) ==
    [kind |-> kind, fear_greed |-> fear_greed, fear_greed_trend |-> fear_greed_trend,
     global_market |-> global_market, market_volatility |-> market_volatility,
     btc_dominance |-> btc_dominance]

\* market_context=None (or {})
NoContext == MarketContext("absent", NoFearGreed, NoTrend, NoGlobalMarket, NoVolatility, NoBtc)

\* a truthy market_context that is no dict
BadContext == MarketContext("bad", NoFearGreed, NoTrend, NoGlobalMarket, NoVolatility, NoBtc)

\* {'fear_greed': {'value': v}} and nothing else
FearGreedOnly(v) ==
    MarketContext("dict", FearGreed("dict", RInt(v)), NoTrend, NoGlobalMarket,
                  NoVolatility, NoBtc)

KeyTweets(kind, len) == [kind |-> kind, len |-> len]

Twitter(kind, overall_sentiment, key_tweets) ==
    [kind |-> kind, overall_sentiment |-> overall_sentiment, key_tweets |-> key_tweets]

NoTwitter == Twitter("absent", "neutral", KeyTweets("list", 0))

BadTwitter == Twitter("bad", "neutral", KeyTweets("list", 0))

(***************************************************************************)
(* The inputs the specifications draw from.                                *)
(***************************************************************************)
MaxKeyTweets == 4

None3 == <<None, None, None>>

RsiValues == {None, RInt(15), RInt(20), RInt(29), RInt(30), RInt(50), RInt(71), RInt(85)}

\* bullish with a large histogram, bearish with a large histogram, MACD barely
\* above its signal line, barely below it, on it, all zero (a flat series), absent
MacdValues ==
    {None3,
     <<Rat(1, 2), Rat(1, 5), Rat(3, 10)>>,
     <<Rat(-1, 2), Rat(1, 5), Rat(-7, 10)>>,
     <<RInt(1), Rat(49, 50), Rat(-1, 50)>>,
     <<RInt(1), Rat(51, 50), Rat(-1, 50)>>,
     <<RInt(1), RInt(1), RInt(0)>>,
     <<RInt(0), RInt(0), RInt(0)>>}

\* full bullish alignment, full bearish alignment, all equal, absent
EmaValues ==
    {None3,
     <<RInt(102), RInt(101), RInt(100)>>,
     <<RInt(98), RInt(99), RInt(100)>>,
     <<RInt(100), RInt(100), RInt(100)>>}

\* <<adx, DI+, DI->>
AdxValues ==
    {None3,
     <<RInt(25), RInt(20), RInt(15)>>,
     <<RInt(35), RInt(30), RInt(15)>>,
     <<RInt(45), RInt(10), RInt(30)>>}

PriceValues == {None, RInt(89), RInt(105), RInt(111)}

BandValues == {None3, <<RInt(110), RInt(100), RInt(90)>>, <<RInt(100), RInt(100), RInt(100)>>}

SmaValues == {None, RInt(98), RInt(105)}

\* Values of the momentum and trend families, fixed bands and SMA.
GridSnapshots ==
    {Snapshot(rsi, macd3, RInt(98), ema3, <<RInt(110), RInt(100), RInt(90)>>, adx3) :
        rsi \in RsiValues, macd3 \in MacdValues, ema3 \in EmaValues, adx3 \in AdxValues}

\* Values of the price families (bands, SMA) on three momentum settings.
BandSnapshots ==
    {Snapshot(rsi, <<Rat(1, 2), Rat(1, 5), Rat(3, 10)>>, sma_50,
              <<RInt(102), RInt(101), RInt(100)>>, bb3, None3) :
        rsi \in {None, RInt(15), RInt(85)}, sma_50 \in SmaValues, bb3 \in BandValues}

\* A bullish, a bearish and a neutral (no vote at all) snapshot, each at its price.
BullishCase == <<BaseSnapshot, RInt(105)>>

BearishCase ==
    <<Snapshot(RInt(75), <<Rat(-1, 2), Rat(1, 5), Rat(-7, 10)>>, RInt(98),
               <<RInt(98), RInt(99), RInt(100)>>,
               <<RInt(110), RInt(100), RInt(90)>>,
               <<RInt(25), RInt(20), RInt(15)>>), RInt(95)>>

NeutralCase == <<Snapshot(None, None3, None, None3, None3, None3), None>>

DirectionCases == {BullishCase, BearishCase, NeutralCase}

\* The snapshot of a flat series of constant closes: RSI undefined or about
\* 50, MACD 0, bands, SMA and EMAs on the close, no ADX.
FlatCloses == {RInt(1), RInt(100)}

FlatSnapshot(rsi, close) ==
    Snapshot(rsi, <<RInt(0), RInt(0), RInt(0)>>, close, <<close, close, close>>,
             <<close, close, close>>, None3)

FlatRsiValues == {None, RInt(48), RInt(50), RInt(52)}

FearGreedValues ==
    {NoFearGreed, FearGreed("bad", None), FearGreed("dict", None),
     FearGreed("dict", WrongKind)}
    \cup {FearGreed("dict", RInt(v)) : v \in {0, 10, 30, 50, 65, 90}}

TrendValues ==
    {NoTrend, FearGreedTrend("bad", "None", "None")}
    \cup {FearGreedTrend("dict", t, d) :
            t \in {"extreme_fear", "greed", "neutral"},
            d \in {"increasing", "decreasing", "stable"}}

GlobalMarketValues ==
    {NoGlobalMarket, GlobalMarket("bad", None), GlobalMarket("dict", None),
     GlobalMarket("dict", WrongKind)}
    \cup {GlobalMarket("dict", c) : c \in {RInt(-6), Rat(-7, 2), RInt(0), Rat(7, 2), RInt(6)}}

VolatilityValues ==
    {NoVolatility, MarketVolatility("bad", "None", None),
     MarketVolatility("dict", "stable", WrongKind),
     MarketVolatility("dict", "None", Rat(5, 2)),
     MarketVolatility("dict", "stable", None)}
    \cup {MarketVolatility("dict", p, Rat(5, 2)) :
            p \in {"highly_volatile", "moderate", "stable"}}

BtcValues ==
    {NoBtc, BtcDominance("bad", None, "None", None),
     BtcDominance("dict", None, "None", None),
     BtcDominance("dict", RInt(55), "neutral", None),
     BtcDominance("dict", RInt(55), "altcoin_bullish", WrongKind)}
    \cup {BtcDominance("dict", RInt(55), m, RInt(3)) :
            m \in {"altcoin_bullish", "altcoin_bearish", "neutral"}}

\* One component at a time, every shape of it.
SingleContexts ==
    {MarketContext("dict", fg, NoTrend, NoGlobalMarket, NoVolatility, NoBtc) :
        fg \in FearGreedValues}
    \cup {MarketContext("dict", NoFearGreed, tr, NoGlobalMarket, NoVolatility, NoBtc) :
        tr \in TrendValues}
    \cup {MarketContext("dict", NoFearGreed, NoTrend, gm, NoVolatility, NoBtc) :
        gm \in GlobalMarketValues}
    \cup {MarketContext("dict", NoFearGreed, NoTrend, NoGlobalMarket, vol, NoBtc) :
        vol \in VolatilityValues}
    \cup {MarketContext("dict", NoFearGreed, NoTrend, NoGlobalMarket, NoVolatility, btc) :
        btc \in BtcValues}

\* Several components together: well-formed ones followed by any shape of a
\* later one.
MixedContexts ==
    {MarketContext("dict", FearGreed("dict", RInt(v)), tr, gm, vol, btc) :
        v \in {10, 90},
        tr \in {NoTrend, FearGreedTrend("dict", "greed", "increasing")},
        gm \in {NoGlobalMarket, GlobalMarket("dict", RInt(-6)), GlobalMarket("dict", RInt(6)),
                GlobalMarket("dict", WrongKind)},
        vol \in {NoVolatility, MarketVolatility("dict", "highly_volatile", Rat(5, 2))},
        btc \in BtcValues}

ContextValues == {NoContext, BadContext} \cup SingleContexts \cup MixedContexts

TwitterValues ==
    {NoTwitter, BadTwitter}
    \cup {Twitter("dict", s, KeyTweets("list", n)) :
            s \in {"bullish", "bearish", "neutral", "mixed", "None"}, n \in 0..MaxKeyTweets}
    \cup {Twitter("dict", s, KeyTweets("bad", 0)) :
            s \in {"bullish", "bearish", "neutral", "mixed", "None"}}

NoResult == [op |-> "none"]

ScoreCall(tech_indicators, price, market_context, twitter_sentiment) ==
    [op |-> "score", tech_indicators |-> tech_indicators, price |-> price,
     market_context |-> market_context, twitter_sentiment |-> twitter_sentiment]

SignalCall(confidence_score, direction, price, tech_indicators) ==
    [op |-> "signal", confidence_score |-> confidence_score, direction |-> direction,
     price |-> price, tech_indicators |-> tech_indicators]

\* Calls of calculate_confidence_score: every technical snapshot without
\* optional inputs and with a fear/greed value of 90 alone; and on a bullish, a
\* bearish and a neutral snapshot every shape of the optional inputs.
TechnicalCalls ==
    {ScoreCall(t, price, mc, NoTwitter) :
        t \in GridSnapshots \cup BandSnapshots, price \in PriceValues,
        mc \in {NoContext, FearGreedOnly(90)}}

ContextCalls ==
    {ScoreCall(c[1], c[2], mc, tw) :
        c \in DirectionCases, mc \in ContextValues,
        tw \in {NoTwitter, Twitter("dict", "bearish", KeyTweets("bad", 0))}}

TwitterCalls ==
    {ScoreCall(c[1], c[2], mc, tw) :
        c \in DirectionCases,
        mc \in {NoContext, FearGreedOnly(90),
                MarketContext("dict", FearGreed("dict", RInt(10)), NoTrend, NoGlobalMarket,
                              NoVolatility, BtcDominance("dict", None, "None", None))},
        tw \in TwitterValues}

\* The flat snapshot at its close, with and without optional inputs.
FlatCalls ==
    {ScoreCall(FlatSnapshot(rsi, close), close, mc, tw) :
        rsi \in FlatRsiValues, close \in FlatCloses,
        mc \in {NoContext, FearGreedOnly(90),
                MarketContext("dict", FearGreed("dict", RInt(10)), NoTrend, NoGlobalMarket,
                              NoVolatility, NoBtc)},
        tw \in {NoTwitter, Twitter("dict", "bullish", KeyTweets("list", 3))}}

\* Every family at the top of its range and every directional vote bullish.
PeakSnapshot ==
    Snapshot(RInt(10), <<RInt(1), RInt(1), Rat(1, 2)>>, RInt(80),
             <<Rat(803, 10), RInt(80), RInt(70)>>, <<RInt(110), RInt(100), RInt(90)>>,
             <<RInt(35), RInt(30), RInt(15)>>)

PeakCalls ==
    {ScoreCall(PeakSnapshot, RInt(89), mc, NoTwitter) : mc \in {NoContext, FearGreedOnly(90)}}

\* EMA 9 just below, on, and just above EMA 21, and exactly 0.5% below it.
NearCrossValues ==
    {<<Rat(997, 10), RInt(100), RInt(100)>>, <<RInt(100), RInt(100), RInt(101)>>,
     <<Rat(1003, 10), RInt(100), RInt(100)>>, <<Rat(995, 10), RInt(100), RInt(100)>>}

NearCrossCalls ==
    {ScoreCall(Snapshot(None, None3, None, ema3, None3, None3), price, NoContext, NoTwitter) :
        ema3 \in NearCrossValues, price \in {RInt(100), RInt(105)}}

ScoreCalls == TechnicalCalls \cup ContextCalls \cup TwitterCalls \cup FlatCalls \cup PeakCalls \cup NearCrossCalls

\* Direct calls of generate_trading_signal, with any score and direction.
SignalCalls ==
    {SignalCall(s, d, price, Snapshot(rsi, macd3, None, ema3, None3, adx3)) :
        s \in {20, 45, 70}, d \in {"bullish", "bearish", "neutral"},
        price \in {None, RInt(95)},
        rsi \in RsiValues, macd3 \in MacdValues, ema3 \in EmaValues, adx3 \in AdxValues}
    \cup {SignalCall(s, d, close, FlatSnapshot(rsi, close)) :
            s \in {0, 20, 45, 70, 100}, d \in {"bullish", "bearish", "neutral"},
            rsi \in FlatRsiValues, close \in FlatCloses}

\* Every subset of the 14 keys None, at a present price and at price None.
PresenceCalls ==
    {ScoreCall(Without(BaseSnapshot, missing), price, NoContext, NoTwitter) :
        missing \in SUBSET expected_indicators, price \in {RInt(105), None}}

(***************************************************************************)
(* CacheManager (cache_manager.py).  No method awaits while it holds a     *)
(* namespace lock, so the lock is free whenever a method asks for it and   *)
(* each method runs to its end without yielding.                           *)
(***************************************************************************)
MaxTime == 2

Namespaces == {"coingecko_list", "reports"}

CacheKeys == {<<"coingecko_list", "coins_list">>, <<"reports", "btc">>, <<"reports", "eth">>}

\* Cached values are lists, here of one coin id.
CacheValues == {<<"bitcoin">>, <<"ethereum">>}

\* ttl_seconds: Optional[int], None or <<seconds>>.
TtlValues == {None, <<0>>, <<1>>}

\* self._default_ttls.get(namespace, self._default_ttls['default'])
get_default_ttl(namespace) ==
    IF namespace = "coingecko" THEN 300
    ELSE IF namespace = "coingecko_list" THEN 3600
    ELSE IF namespace = "coingecko_market" THEN 600
    ELSE IF namespace = "cryptopanic" THEN 900
    ELSE IF namespace = "perplexity" THEN 1800
    ELSE IF namespace = "market_context" THEN 900
    ELSE IF namespace = "technical_analysis" THEN 1200
    ELSE 300

\* CacheEntry.__init__ at time t
CacheEntry(value, ttl_seconds, t) == [value |-> value, expiry |-> t + ttl_seconds]

\* is_expired with the last moment of the ttl already expired.
is_expired_inclusive(entry, t) == t >= entry.expiry

\* CacheEntry.is_expired at time t
is_expired(entry, t) == t > entry.expiry

\* A dict without one key.
DictWithout(dict, key) == [k \in DOMAIN dict \ {key} |-> dict[k]]

\* A dict with dict[key] = value.
DictWith(dict, key, value) ==
    [k \in DOMAIN dict \cup {key} |-> IF k = key THEN value ELSE dict[k]]

\* The state after _initialize, at the start of the clock.
NoCache ==
    /\ cache = <<>>
    /\ now = 0
    /\ written = [k \in CacheKeys |-> [state |-> "never"]]

\* Time passes between two calls.
Tick ==
    /\ now < MaxTime
    /\ now' = now + 1
    /\ UNCHANGED <<call, result, locals, pc, history, cache, written, df>>

(***************************************************************************)
(* The state machine: a call is drawn, then runs to its return.            *)
(***************************************************************************)
CalculateConfidenceScore ==
    /\ pc = "called"
    /\ call.op = "score"
    /\ locals' = ScoreLocals(call.tech_indicators, call.price,
                             call.market_context, call.twitter_sentiment)
    /\ result' = locals'.ret
    /\ pc' = "returned"
    /\ history' = Append(history, [call |-> call, result |-> result'])
    /\ UNCHANGED <<call, cacheVars, df>>

GenerateTradingSignal ==
    /\ pc = "called"
    /\ call.op = "signal"
    /\ locals' = SignalLocals(call.confidence_score, call.direction,
                              call.price, call.tech_indicators)
    /\ result' = locals'.ret
    /\ pc' = "returned"
    /\ history' = Append(history, [call |-> call, result |-> result'])
    /\ UNCHANGED <<call, cacheVars, df>>

Init ==
    /\ call \in ScoreCalls \cup SignalCalls
    /\ result = NoResult
    /\ locals = NoResult
    /\ pc = "called"
    /\ history = <<>>
    /\ NoCache
    /\ df = None

Next == CalculateConfidenceScore \/ GenerateTradingSignal

Spec == Init /\ [][Next]_vars

InitPresence ==
    /\ call \in PresenceCalls
    /\ result = NoResult
    /\ locals = NoResult
    /\ pc = "called"
    /\ history = <<>>
    /\ NoCache
    /\ df = None

NextPresence == CalculateConfidenceScore

SpecPresence == InitPresence /\ [][NextPresence]_vars

\* Calls made one after the other by one caller: the test snapshots through
\* the scorer, bare and with optional inputs, and direct signal calls.
MaxCalls == 3

RepeatedCalls ==
    {ScoreCall(BullishCase[1], BullishCase[2], NoContext, NoTwitter),
     ScoreCall(BullishCase[1], BullishCase[2], FearGreedOnly(90), NoTwitter),
     ScoreCall(BearishCase[1], BearishCase[2], NoContext,
               Twitter("dict", "bearish", KeyTweets("list", 3))),
     ScoreCall(NeutralCase[1], NeutralCase[2], BadContext, BadTwitter),
     SignalCall(70, "bullish", RInt(105), BullishCase[1]),
     SignalCall(70, "bearish", RInt(95), BearishCase[1])}

\* The caller makes another call; the returned call's result and locals stay
\* where they are until the next call overwrites them.
CallAgain ==
    /\ pc = "returned"
    /\ Len(history) < MaxCalls
    /\ call' \in RepeatedCalls
    /\ pc' = "called"
    /\ UNCHANGED <<result, locals, history, cacheVars, df>>

InitCalls ==
    /\ call \in RepeatedCalls
    /\ result = NoResult
    /\ locals = NoResult
    /\ pc = "called"
    /\ history = <<>>
    /\ NoCache
    /\ df = None

NextCalls == CalculateConfidenceScore \/ GenerateTradingSignal \/ CallAgain

SpecCalls == InitCalls /\ [][NextCalls]_vars

(***************************************************************************)
(* Properties.                                                             *)
(***************************************************************************)
ScoreReturned == pc = "returned" /\ call.op = "score"

SignalReturned == pc = "returned" /\ call.op = "signal"

\* C1: every call of calculate_confidence_score, whatever is None in the
\* snapshot and whatever the shape of the optional inputs, returns an integer
\* overall_score with 0 <= overall_score <= 100.
C1_OverallScoreInRange == ScoreReturned => result.overall_score \in 0..100

\* The lower clamp acted: the adjusted sum was negative.
C1_Witness ==
    /\ ScoreReturned
    /\ RLt(locals.adjusted, RInt(-1))
    /\ result.overall_score = 0

\* C2: the returned indicator_agreement lies in [0,1] for every vote count,
\* the case of no vote at all included.
C2_AgreementInUnitInterval ==
    ScoreReturned =>
        /\ RLe(RInt(0), result.indicator_agreement)
        /\ RLe(result.indicator_agreement, RInt(1))

\* No vote was cast at all, and the agreement is the default 0.5.
C2_Witness ==
    /\ ScoreReturned
    /\ locals.votes = [bullish |-> 0, bearish |-> 0, neutral |-> 0]
    /\ result.indicator_agreement = Rat(1, 2)

\* C3: whenever the tallied bullish and bearish vote counts are equal (both
\* zero included) the returned direction is 'neutral', whatever the number of
\* neutral votes.
C3_TieIsNeutral ==
    (ScoreReturned /\ locals.votes.bullish = locals.votes.bearish)
        => result.direction = "neutral"

\* A tie between cast votes, with neutral votes beside it.
C3_Witness ==
    /\ ScoreReturned
    /\ locals.votes.bullish = locals.votes.bearish
    /\ locals.votes.bullish > 0
    /\ locals.votes.neutral > 0
    /\ result.direction = "neutral"

\* The signal a returned call of either operation produced, and the inputs and
\* the step-6 signal of the generate_trading_signal call that produced it.
ReturnedSignal == IF call.op = "signal" THEN result ELSE result.signal

VoteDerivedSignal ==
    IF call.op = "signal" THEN locals.vote_signal
    ELSE SignalLocals(result.overall_score, result.direction, call.price,
                      call.tech_indicators).vote_signal

AdxConfirmsBullish ==
    LET t == call.tech_indicators
    IN  /\ t.adx # None /\ t.adx_plus_di # None /\ t.adx_minus_di # None
        /\ RLe(RInt(25), t.adx) /\ RLt(t.adx_minus_di, t.adx_plus_di)

AdxConfirmsBearish ==
    LET t == call.tech_indicators
    IN  /\ t.adx # None /\ t.adx_plus_di # None /\ t.adx_minus_di # None
        /\ RLe(RInt(25), t.adx) /\ RLt(t.adx_plus_di, t.adx_minus_di)

C5_Scenario ==
    /\ SignalReturned
    /\ call.confidence_score = 70
    /\ call.direction = "bearish"
    /\ call.tech_indicators.rsi = RInt(15)
    /\ call.tech_indicators.adx = RInt(35)
    /\ call.tech_indicators.adx_plus_di # None
    /\ call.tech_indicators.adx_minus_di # None
    /\ RLt(call.tech_indicators.adx_minus_di, call.tech_indicators.adx_plus_di)

WithoutContext ==
    calculate_confidence_score(call.tech_indicators, call.price, NoContext,
                               call.twitter_sentiment)

WithoutTwitter ==
    calculate_confidence_score(call.tech_indicators, call.price, call.market_context,
                               NoTwitter)

\* C6: if the processing of market_context (or of twitter_sentiment) raises,
\* that family contributes nothing: no factor score, no score adjustment and
\* no evidence note, so overall_score and both evidence lists equal those of
\* the same call with that optional input absent.
C6_RaisedFamilyOmitted ==
    ScoreReturned =>
        /\ locals.market.raised =>
              /\ result.factor_scores.market_context = None
              /\ result.overall_score = WithoutContext.overall_score
              /\ result.supporting_indicators = WithoutContext.supporting_indicators
              /\ result.conflicting_indicators = WithoutContext.conflicting_indicators
        /\ locals.twitter.raised =>
              /\ result.factor_scores.twitter_sentiment = None
              /\ result.overall_score = WithoutTwitter.overall_score
              /\ result.supporting_indicators = WithoutTwitter.supporting_indicators
              /\ result.conflicting_indicators = WithoutTwitter.conflicting_indicators

ResultKeys ==
    {"overall_score", "direction", "signal", "factor_scores", "supporting_indicators",
     "conflicting_indicators", "indicator_agreement"}

\* C7: whatever the shape of market_context and twitter_sentiment, the call
\* does not raise: it returns a result with overall_score, direction, signal,
\* factor_scores, both evidence lists and indicator_agreement.
C7_NeverRaises ==
    ScoreReturned =>
        /\ ~result.raised
        /\ ResultKeys \subseteq DOMAIN result
        /\ result.signal \in {"STRONG BUY", "BUY", "HOLD", "SELL", "STRONG SELL"}

\* Both optional inputs raised inside their try blocks and the call returned.
C7_Witness ==
    /\ ScoreReturned
    /\ locals.market.raised
    /\ locals.twitter.raised
    /\ ~result.raised

\* C8: on a bullish direction, a market_context holding only a fear/greed
\* value of 90 gives factor_scores['market_context'] = 0, files a 'Context:'
\* conflict note under conflicting_indicators, and returns an overall_score
\* strictly below that of the same call with market_context=None.
C8_ExtremeGreedLowersBullishScore ==
    (/\ ScoreReturned
     /\ call.market_context = FearGreedOnly(90)
     /\ result.direction = "bullish") =>
        /\ result.factor_scores.market_context = RInt(0)
        /\ "Context: Extreme Greed ({fg_value}) conflicts with bullish signal"
               \in result.conflicting_indicators
        /\ result.overall_score < WithoutContext.overall_score

\* A bullish call with the fear/greed value of 90 alone, ten points lower.
C8_Witness ==
    /\ ScoreReturned
    /\ call.market_context = FearGreedOnly(90)
    /\ result.direction = "bullish"
    /\ result.overall_score > 0
    /\ locals.market.context_adjustment = -10

\* RSI values 0, 1, ..., 100.
RsiGrid == {RInt(n) : n \in 0..100}

\* C9 as stated: for 0 <= r1 <= r2 <= 50 the RSI factor score for r1 is at
\* least the RSI factor score for r2 (r2 is the call's RSI, r1 any lower one).
C9_MonotoneUpTo50 ==
    (/\ ScoreReturned
     /\ call.tech_indicators.rsi # None
     /\ RLe(RInt(0), call.tech_indicators.rsi)
     /\ RLe(call.tech_indicators.rsi, RInt(50))) =>
        \A r1 \in RsiGrid :
            RLe(r1, call.tech_indicators.rsi) =>
                RLe(result.factor_scores.rsi, RsiAnalysis(r1).score)

\* C9 amended: inside the oversold zone, for 0 <= r1 <= r2 < 30, the RSI
\* factor score for r1 is at least the RSI factor score for r2.
C9_MonotoneBelow30 ==
    (/\ ScoreReturned
     /\ call.tech_indicators.rsi # None
     /\ RLe(RInt(0), call.tech_indicators.rsi)
     /\ RLt(call.tech_indicators.rsi, RInt(30))) =>
        \A r1 \in RsiGrid :
            RLe(r1, call.tech_indicators.rsi) =>
                RLe(result.factor_scores.rsi, RsiAnalysis(r1).score)

\* A call in the oversold zone whose score is below the cap, so that a lower
\* RSI scores strictly higher.
C9_Witness ==
    /\ ScoreReturned
    /\ call.tech_indicators.rsi = RInt(29)
    /\ result.factor_scores.rsi = Rat(3, 2)
    /\ RLt(result.factor_scores.rsi, RsiAnalysis(RInt(20)).score)

\* C10: for every subset of the 14 keys None (price present or None) the call
\* completes and factor_scores['data_quality'] = 10 * k / 14, k the number of
\* keys with a non-None value; with only rsi and sma_50 present it is 10 * 2 / 14.
C10_DataQuality ==
    ScoreReturned =>
        LET k == Cardinality({key \in expected_indicators :
                                 call.tech_indicators[key] # None})
        IN  /\ ~result.raised
            /\ result.factor_scores.data_quality = Rat(10 * k, 14)
            /\ ({key \in expected_indicators : call.tech_indicators[key] # None}
                    = {"rsi", "sma_50"})
                  => result.factor_scores.data_quality = Rat(20, 14)

\* The call with only rsi and sma_50 present.
C10_Witness ==
    /\ ScoreReturned
    /\ {key \in expected_indicators : call.tech_indicators[key] # None} = {"rsi", "sma_50"}
    /\ result.factor_scores.data_quality = Rat(10, 7)

\* The call's snapshot is the snapshot of a flat series, priced at its close.
FlatCall ==
    \E rsi \in FlatRsiValues, close \in FlatCloses :
        /\ call.tech_indicators = FlatSnapshot(rsi, close)
        /\ call.price = close

\* C14: for the snapshot of a flat constant-close series (rsi None or about
\* 50, MACD all 0, bands, SMA and EMAs equal to the price, no ADX values) the
\* signal of calculate_confidence_score and of generate_trading_signal is HOLD.
C14_FlatSeriesHolds ==
    (pc = "returned" /\ FlatCall) => ReturnedSignal = "HOLD"

\* The scorer on the flat snapshot without RSI: score 12, bearish lean, HOLD.
C14_Witness ==
    /\ ScoreReturned
    /\ FlatCall
    /\ call.tech_indicators.rsi = None
    /\ call.market_context = NoContext
    /\ call.twitter_sentiment = NoTwitter
    /\ result.overall_score = 12
    /\ result.direction = "bearish"
    /\ result.signal = "HOLD"

\* All votes cast by the technical families.
TotalVotes == locals.votes.bullish + locals.votes.bearish + locals.votes.neutral

\* C17 as stated: 'bullish' (resp. 'bearish') is returned only when the bullish
\* (resp. bearish) votes are a strict majority of all votes cast, neutral
\* votes included.
C17_StrictMajorityOfAllVotes ==
    ScoreReturned =>
        /\ result.direction = "bullish" => 2 * locals.votes.bullish > TotalVotes
        /\ result.direction = "bearish" => 2 * locals.votes.bearish > TotalVotes

\* C17 amended: the direction is 'bullish' exactly when the bullish votes
\* outnumber the bearish votes, 'bearish' exactly when the bearish votes
\* outnumber the bullish votes, and 'neutral' otherwise; neutral votes are not
\* counted.
C17_MoreVotesThanOpposite ==
    ScoreReturned =>
        /\ result.direction = "bullish" <=> locals.votes.bullish > locals.votes.bearish
        /\ result.direction = "bearish" <=> locals.votes.bearish > locals.votes.bullish
        /\ result.direction = "neutral" <=> locals.votes.bearish = locals.votes.bullish

\* A bullish direction on bullish votes that are not more than half of all votes.
C17_Witness ==
    /\ ScoreReturned
    /\ result.direction = "bullish"
    /\ locals.votes.neutral > 0
    /\ 2 * locals.votes.bullish <= TotalVotes

\* C18: the RSI votes of generate_trading_signal are additive: rsi <= 30 adds
\* 1 bullish vote and rsi <= 20 adds 2 more (3 in total); rsi >= 70 adds 1
\* bearish vote and rsi >= 80 adds 2 more (3 in total).
C18_RsiVotesAdditive ==
    (SignalReturned /\ call.tech_indicators.rsi # None) =>
        LET rsi == call.tech_indicators.rsi
            added == locals.steps.rsi
        IN  /\ added.bull = RInt(IF RLe(rsi, RInt(20)) THEN 3
                                 ELSE IF RLe(rsi, RInt(30)) THEN 1 ELSE 0)
            /\ added.bear = RInt(IF RLe(RInt(80), rsi) THEN 3
                                 ELSE IF RLe(RInt(70), rsi) THEN 1 ELSE 0)

\* C19: the near-crossover damping takes 0.5 only from the tally the MACD step
\* has just incremented; a side that received no MACD vote is not reduced, so
\* the MACD step lowers neither tally.
C19_DampingOnlyOnVotedSide ==
    SignalReturned =>
        /\ RLe(RInt(0), locals.steps.macd.bull)
        /\ RLe(RInt(0), locals.steps.macd.bear)

\* No RSI override applies: rsi is None or 20 < rsi < 80.
NoRsiOverride ==
    \/ call.tech_indicators.rsi = None
    \/ /\ RLt(RInt(20), call.tech_indicators.rsi)
       /\ RLt(call.tech_indicators.rsi, RInt(80))

\* C20: when no RSI override applies, the result of generate_trading_signal is
\* determined by strength = bullish votes - bearish votes: STRONG BUY iff
\* strength >= 6, BUY iff 3 <= strength < 6, STRONG SELL iff strength <= -7,
\* SELL iff -7 < strength <= -4, HOLD otherwise, half-integer strengths included.
C20_StrengthDecides ==
    (SignalReturned /\ NoRsiOverride) =>
        LET strength == locals.signal_strength
        IN  /\ strength = RSub(locals.bullish_signals, locals.bearish_signals)
            /\ result = "STRONG BUY" <=> RLe(RInt(6), strength)
            /\ result = "BUY" <=> (RLe(RInt(3), strength) /\ RLt(strength, RInt(6)))
            /\ result = "STRONG SELL" <=> RLe(strength, RInt(-7))
            /\ result = "SELL" <=> (RLt(RInt(-7), strength) /\ RLe(strength, RInt(-4)))
            /\ result = "HOLD" <=> (RLt(RInt(-4), strength) /\ RLt(strength, RInt(3)))

\* A damped strength of -3.5, between SELL and HOLD.
C20_Witness ==
    /\ SignalReturned
    /\ NoRsiOverride
    /\ locals.signal_strength = Rat(-7, 2)
    /\ result = "HOLD"

CacheSet(namespace, key, value, ttl_seconds) ==
    LET ttl == IF ttl_seconds = None THEN get_default_ttl(namespace) ELSE ttl_seconds[1]
        dict == IF namespace \in DOMAIN cache THEN cache[namespace] ELSE <<>>
    IN  /\ cache' = DictWith(cache, namespace, DictWith(dict, key, CacheEntry(value, ttl, now)))
        /\ written' = [written EXCEPT ![<<namespace, key>>] = [state |-> "set", value |-> value, at |-> now, ttl |-> ttl]]
        /\ call' = [op |-> "set", namespace |-> namespace, key |-> key]
        /\ result' = None
        /\ UNCHANGED <<df, locals, pc, history, now>>

\* Mutant of RemoveExpired: the entry is not tested again under the lock; what
\* get saw expired before the lock is deleted.
RemoveSeen(namespace, key, t) ==
    IF key \in DOMAIN cache[namespace]
    THEN [cache EXCEPT ![namespace] = DictWithout(cache[namespace], key)]
    ELSE cache

\* The clean-up of get, under the namespace lock, at time t.
RemoveExpired(namespace, key, t) ==
    IF key \in DOMAIN cache[namespace] /\ is_expired(cache[namespace][key], t)
    THEN [cache EXCEPT ![namespace] = DictWithout(cache[namespace], key)]
    ELSE cache

\* await cache_manager.get(namespace, key)
CacheGet(namespace, key) ==
    /\ call' = [op |-> "get", namespace |-> namespace, key |-> key, at |-> now]
    /\ IF namespace \notin DOMAIN cache \/ key \notin DOMAIN cache[namespace]
       THEN /\ result' = None
            /\ UNCHANGED <<cache, now>>
       ELSE IF is_expired(cache[namespace][key], now)
       THEN /\ \E t \in now..MaxTime :
                /\ now' = t
                /\ cache' = RemoveExpired(namespace, key, t)
            /\ result' = None
       ELSE /\ result' = cache[namespace][key].value
            /\ UNCHANGED <<cache, now>>
    /\ UNCHANGED <<df, locals, pc, history, written>>

\* await cache_manager.delete(namespace, key)
CacheDelete(namespace, key) ==
    /\ call' = [op |-> "delete", namespace |-> namespace, key |-> key]
    /\ IF namespace \notin DOMAIN cache \/ key \notin DOMAIN cache[namespace]
       THEN /\ result' = FALSE
            /\ UNCHANGED cache
       ELSE /\ result' = TRUE
            /\ cache' = [cache EXCEPT ![namespace] = DictWithout(cache[namespace], key)]
    /\ written' = [written EXCEPT ![<<namespace, key>>] = [state |-> "removed"]]
    /\ UNCHANGED <<df, locals, pc, history, now>>

\* The cache after clear_namespace on every namespace of the set.
Cleared(namespaces) ==
    [n \in DOMAIN cache |-> IF n \in namespaces THEN <<>> ELSE cache[n]]

\* The number of entries in the namespaces of the set.
RECURSIVE CountEntries(_)
CountEntries(namespaces) ==
    IF namespaces = {} THEN 0
    ELSE LET n == CHOOSE x \in namespaces : TRUE
         IN  Cardinality(DOMAIN cache[n]) + CountEntries(namespaces \ {n})

\* await cache_manager.clear_namespace(namespace)
CacheClearNamespace(namespace) ==
    /\ call' = [op |-> "clear_namespace", namespace |-> namespace]
    /\ result' = CountEntries({namespace} \cap DOMAIN cache)
    /\ cache' = Cleared({namespace})
    /\ written' = [k \in DOMAIN written |-> IF k[1] = namespace THEN [state |-> "removed"] ELSE written[k]]
    /\ UNCHANGED <<df, locals, pc, history, now>>

\* await cache_manager.clear_all()
CacheClearAll ==
    /\ call' = [op |-> "clear_all"]
    /\ result' = CountEntries(DOMAIN cache)
    /\ cache' = Cleared(DOMAIN cache)
    /\ written' = [k \in CacheKeys |-> [state |-> "removed"]]
    /\ UNCHANGED <<df, locals, pc, history, now>>

InitCache ==
    /\ call = NoResult
    /\ result = NoResult
    /\ locals = NoResult
    /\ pc = "returned"
    /\ history = <<>>
    /\ NoCache
    /\ df = None

NextCache ==
    \/ \E k \in CacheKeys, value \in CacheValues, ttl_seconds \in TtlValues : CacheSet(k[1], k[2], value, ttl_seconds)
    \/ \E k \in CacheKeys : CacheGet(k[1], k[2])
    \/ \E k \in CacheKeys : CacheDelete(k[1], k[2])
    \/ \E namespace \in Namespaces : CacheClearNamespace(namespace)
    \/ CacheClearAll
    \/ Tick

SpecCache == InitCache /\ [][NextCache]_vars

(***************************************************************************)
(* C16: after set(namespace, key, v, ttl) and with no later set, delete    *)
(* or clear of that key, get(namespace, key) returns v at every time       *)
(* t <= set-time + ttl; at every time t > set-time + ttl it returns None   *)
(* and the entry is no longer stored; get on a key never set returns None. *)
(***************************************************************************)
GetReturned == call.op = "get"

LastSet == written[<<call.namespace, call.key>>]

Stored(namespace, key) == namespace \in DOMAIN cache /\ key \in DOMAIN cache[namespace]

C16_GetContract ==
    GetReturned =>
        IF LastSet.state = "never" THEN result = None
        ELSE IF LastSet.state = "removed" THEN TRUE
        ELSE IF call.at <= LastSet.at + LastSet.ttl THEN result = LastSet.value
        ELSE result = None /\ ~Stored(call.namespace, call.key)

\* An entry set with ttl 1 is asked for after its time and found gone, while
\* the other entry of its namespace stays.
C16_Witness ==
    /\ GetReturned
    /\ call.namespace = "reports" /\ call.key = "btc"
    /\ LastSet.state = "set"
    /\ LastSet.ttl = 1
    /\ call.at > LastSet.at + LastSet.ttl
    /\ result = None
    /\ Stored("reports", "eth")

(***************************************************************************)
(* calculate_technical_indicators (indicators.py), with its default        *)
(* parameters.  A DataFrame is its column labels and the cells of its last *)
(* column, which is the close column whenever the frame has one; a cell is *)
(* a number, a missing value (NaN) or a text that is no number.            *)
(***************************************************************************)
NaN == None

sma_periods == <<50>>

ema_periods == <<9, 21, 55>>

macd_fast == 8

macd_slow == 17

macd_signal == 9

RsiWindow == 14

\* str.lower() of the column labels in use.
Lower(label) ==
    CASE label \in {"Open", "open"} -> "open"
      [] label \in {"High", "high"} -> "high"
      [] label \in {"Low", "low"} -> "low"
      [] label \in {"Close", "CLOSE", "close"} -> "close"
      [] OTHER -> label

\* df.columns.str.lower()
LowerColumns(columns) == [i \in DOMAIN columns |-> Lower(columns[i])]

Labels(columns) == {columns[i] : i \in DOMAIN columns}

\* df.empty: no rows or no columns.
Empty(frame) == Len(frame.cells) = 0 \/ Len(frame.columns) = 0

\* A Series, as the tuple of its values.
Series(values) == SubSeq(values, 1, Len(values))

\* pd.to_numeric(series, errors='coerce')
to_numeric(series) == Series([i \in DOMAIN series |-> IF series[i] = WrongKind THEN NaN ELSE series[i]])

NotNaN(x) == x # NaN

\* series.dropna()
dropna(series) == SelectSeq(series, NotNaN)

\* series.diff()
diff(series) == Series([i \in DOMAIN series |-> IF i = 1 THEN NaN ELSE RSub(series[i], series[i - 1])])

\* y[0] = x[0], y[t] = (1 - alpha) * y[t-1] + alpha * x[t]
RECURSIVE EwmFrom(_, _, _)
EwmFrom(series, alpha, acc) ==
    IF Len(acc) >= Len(series) THEN acc
    ELSE EwmFrom(series, alpha, Append(acc, RAdd(RMul(RSub(RInt(1), alpha), acc[Len(acc)]), RMul(alpha, series[Len(acc) + 1]))))

\* series.ewm(span=span, adjust=False).mean()
ewm(series, span) ==
    IF Len(series) = 0 THEN <<>> ELSE EwmFrom(series, Rat(2, span + 1), <<series[1]>>)

\* The sum of series[i..j] on top of acc; NaN once a value is missing.
RECURSIVE SumFrom(_, _, _, _)
SumFrom(series, i, j, acc) ==
    IF acc = NaN \/ i > j THEN acc
    ELSE SumFrom(series, i + 1, j, IF series[i] = NaN THEN NaN ELSE RAdd(acc, series[i]))

\* The mean of a window, NaN when a value of it is missing.
Mean(sum, window) == IF sum = NaN THEN NaN ELSE RDiv(sum, RInt(window))

\* series.rolling(window=window).mean()
rolling(series, window) ==
    Series([i \in DOMAIN series |-> IF i < window THEN NaN ELSE Mean(SumFrom(series, i - window + 1, i, RInt(0)), window)])

\* series.iloc[-1] if not series.empty else None
LastOf(series) == IF Len(series) = 0 THEN None ELSE series[Len(series)]

\* series.dropna().iloc[-1] if not series.dropna().empty else None
LastValid(series) == LastOf(dropna(series))

\* The manual RSI of lines 84-100 on the cleaned close series.
Gain(delta) == Series([i \in DOMAIN delta |-> IF delta[i] # NaN /\ RLt(RInt(0), delta[i]) THEN delta[i] ELSE RInt(0)])

Loss(delta) == Series([i \in DOMAIN delta |-> IF delta[i] # NaN /\ RLt(delta[i], RInt(0)) THEN RNeg(delta[i]) ELSE RInt(0)])

\* 100 - (100 / (1 + avg_gain / avg_loss)), in floating point: 0/0 is NaN
\* and a division by zero of a positive gain is infinite, which gives 100.
RsiOf(avg_gain, avg_loss) ==
    IF avg_gain = NaN \/ avg_loss = NaN THEN NaN
    ELSE IF avg_loss = RInt(0) THEN (IF avg_gain = RInt(0) THEN NaN ELSE RInt(100))
    ELSE RSub(RInt(100), RDiv(RInt(100), RAdd(RInt(1), RDiv(avg_gain, avg_loss))))

RsiSeries(avg_gain, avg_loss) == Series([i \in DOMAIN avg_gain |-> RsiOf(avg_gain[i], avg_loss[i])])

ManualRsi(clean) ==
    LastValid(RsiSeries(rolling(Gain(diff(clean)), RsiWindow), rolling(Loss(diff(clean)), RsiWindow)))

\* The manual MACD of lines 146-162 on the cleaned close series.
SeriesSub(a, b) == Series([i \in DOMAIN a |-> RSub(a[i], b[i])])

MacdLine(clean) == SeriesSub(ewm(clean, macd_fast), ewm(clean, macd_slow))

SignalLine(macd_line) == ewm(macd_line, macd_signal)

ManualMacd(macd_line) ==
    [macd |-> LastOf(macd_line), macd_signal |-> LastOf(SignalLine(macd_line)), macd_hist |-> LastOf(SeriesSub(macd_line, SignalLine(macd_line)))]

\* results[key] = value for every key of the set.
SetAll(results, keys, value) ==
    [k \in DOMAIN results \cup keys |-> IF k \in keys THEN value ELSE results[k]]

\* f"sma_{period}" and f"ema_{period}"
SmaKey(period) == IF period = 50 THEN "sma_50" ELSE "sma_n"

EmaKey(period) ==
    CASE period = 9 -> "ema_9"
      [] period = 21 -> "ema_21"
      [] period = 55 -> "ema_55"
      [] OTHER -> "ema_n"

\* Lines 35-47: the dictionary with every key set to None.
RECURSIVE WithPeriodKeys(_, _, _)
WithPeriodKeys(results, periods, sma) ==
    IF periods = <<>> THEN results
    ELSE WithPeriodKeys(DictWith(results, IF sma THEN SmaKey(Head(periods)) ELSE EmaKey(Head(periods)), None), Tail(periods), sma)

InitialResults ==
    WithPeriodKeys(WithPeriodKeys([k \in {"rsi", "macd", "macd_signal", "macd_hist", "bb_upper", "bb_middle", "bb_lower", "sma_50", "adx", "adx_plus_di", "adx_minus_di"} |-> None], sma_periods, TRUE), ema_periods, FALSE)

\* The function's position: its results, the cells of df['close'] and
\* whether an exception is on its way out.
At(results, cells, raised) == [results |-> results, cells |-> cells, raised |-> raised]

\* except KeyError only: any other exception goes on.
ExceptKeyError(st, keys) == st

\* except Exception as e: results[key] = None for the block's keys (none
\* for ADX and the Bollinger bands, whose results remain as they are).
ExceptException(st, keys) ==
    IF st.raised THEN At(SetAll(st.results, keys, None), st.cells, FALSE) ELSE st

\* df['close'] = pd.to_numeric(df['close'], errors='coerce') and the work on
\* df.dropna(subset=['close']), which fails or gives the block's values.
Fallback(st, fails, values) ==
    IF fails THEN At(st.results, to_numeric(st.cells), TRUE)
    ELSE At([k \in DOMAIN st.results |-> IF k \in DOMAIN values THEN values[k] ELSE st.results[k]], to_numeric(st.cells), FALSE)

Clean(st) == dropna(to_numeric(st.cells))

\* An exception that left the function.
Raised == [raised |-> TRUE]

\* Lines 66-114.  The library returns a value, a Series of NaN, or None
\* (on which .dropna() raises), or raises; the manual path may fail too.
RsiBlock(st, outcome, value) ==
    IF st.raised THEN st
    ELSE ExceptException(
            CASE outcome = "value" -> At(SetAll(st.results, {"rsi"}, value), st.cells, FALSE)
              [] outcome = "nan" -> At(SetAll(st.results, {"rsi"}, None), st.cells, FALSE)
              [] outcome = "fails" -> Fallback(st, TRUE, <<>>)
              [] OTHER -> Fallback(st, FALSE, [rsi |-> ManualRsi(Clean(st))]),
            {"rsi"})

\* Lines 116-184.
MacdBlock(st, outcome, value) ==
    IF st.raised THEN st
    ELSE ExceptException(
            CASE outcome = "value" -> At(SetAll(SetAll(st.results, {"macd", "macd_signal"}, value), {"macd_hist"}, RInt(0)), st.cells, FALSE)
              [] outcome = "nan" -> At(SetAll(st.results, {"macd", "macd_signal", "macd_hist"}, None), st.cells, FALSE)
              [] outcome = "fails" -> Fallback(st, TRUE, <<>>)
              [] OTHER -> Fallback(st, FALSE, ManualMacd(MacdLine(Clean(st)))),
            {"macd", "macd_signal", "macd_hist"})

\* Lines 188-224 for one period: a library None skips the if and a raise
\* is caught, both into the pandas path.
SmaBlock(st, period, outcome, value) ==
    IF st.raised THEN st
    ELSE ExceptException(
            CASE outcome = "value" -> At(SetAll(st.results, {SmaKey(period)}, value), st.cells, FALSE)
              [] outcome = "fails" -> Fallback(st, TRUE, <<>>)
              [] OTHER -> Fallback(st, FALSE, [k \in {SmaKey(period)} |-> IF Len(Clean(st)) = 0 THEN None ELSE LastValid(rolling(Clean(st), period))]),
            {SmaKey(period)})

\* Lines 228-261 for one period: an empty cleaned series assigns nothing.
EmaBlock(st, period, outcome, value) ==
    IF st.raised THEN st
    ELSE ExceptException(
            CASE outcome = "value" -> At(SetAll(st.results, {EmaKey(period)}, value), st.cells, FALSE)
              [] outcome = "fails" -> Fallback(st, TRUE, <<>>)
              [] OTHER -> Fallback(st, FALSE, [k \in (IF Len(Clean(st)) = 0 THEN {} ELSE {EmaKey(period)}) |-> LastOf(ewm(Clean(st), period))]),
            {EmaKey(period)})

RECURSIVE SmaLoop(_, _, _, _)
SmaLoop(st, periods, outcome, value) ==
    IF periods = <<>> THEN st
    ELSE SmaLoop(SmaBlock(st, Head(periods), outcome, value), Tail(periods), outcome, value)

RECURSIVE EmaLoop(_, _, _, _)
EmaLoop(st, periods, outcome, value) ==
    IF periods = <<>> THEN st
    ELSE EmaLoop(EmaBlock(st, Head(periods), outcome, value), Tail(periods), outcome, value)

\* Lines 263-285 and 287-309: the library's frame gives the three values,
\* or is None, or the call raises; results remain None then.
LibraryBlock(st, keys, outcome, value) ==
    IF st.raised THEN st
    ELSE ExceptException(
            CASE outcome = "value" -> At(SetAll(st.results, keys, value), st.cells, FALSE)
              [] outcome = "raises" -> At(st.results, st.cells, TRUE)
              [] OTHER -> st,
            {})

\* Lines 64-311, from the frame with a close column to the return.
Blocks(st, lib) ==
    LibraryBlock(
        LibraryBlock(
            EmaLoop(SmaLoop(MacdBlock(RsiBlock(st, lib.rsi, lib.value), lib.macd, lib.value), sma_periods, lib.sma, lib.value), ema_periods, lib.ema, lib.value),
            {"adx", "adx_plus_di", "adx_minus_di"}, lib.adx, lib.value),
        {"bb_upper", "bb_middle", "bb_lower"}, lib.bbands, lib.value)

Returned(frame, st) ==
    [results |-> IF st.raised THEN Raised ELSE st.results,
     df |-> [kind |-> "DataFrame", columns |-> LowerColumns(frame.columns), cells |-> st.cells]]

\* calculate_technical_indicators(df): what it returns and what it leaves
\* in the caller's frame.
calculate_technical_indicators(frame, lib) ==
    IF frame.kind = "None" \/ Empty(frame)
    THEN [results |-> InitialResults, df |-> frame]
    ELSE IF "close" \notin Labels(LowerColumns(frame.columns))
    THEN [results |-> InitialResults, df |-> [frame EXCEPT !.columns = LowerColumns(frame.columns)]]
    ELSE Returned(frame, Blocks(At(InitialResults, frame.cells, FALSE), lib))

(***************************************************************************)
(* Calls of calculate_technical_indicators: the caller's frame and what    *)
(* the pandas_ta and pandas calls do on it.                                *)
(***************************************************************************)
MaxShortBars == 3

LongBars == 60

ColumnLayouts ==
    {<<"open", "high", "low", "close">>, <<"Open", "High", "Low", "Close">>, <<"timestamp", "CLOSE">>, <<"close">>, <<"open", "high", "low">>, <<>>}

Closes == <<RInt(100), RInt(102), RInt(101), RInt(103), RInt(99)>>

\* A few bars, fewer than any window.
ShortSeries == {SubSeq(Closes, 1, n) : n \in 0..MaxShortBars}

\* More bars than the longest window: flat, then two last moves.
LongSeries ==
    {Series([i \in 1..LongBars |-> IF i = LongBars - 1 THEN RInt(102) ELSE IF i = LongBars THEN RInt(101) ELSE RInt(100)])}

\* A close column holding a text that is no number.
TextSeries == {<<WrongKind>>, <<RInt(100), WrongKind>>}

NoneFrame == [kind |-> "None"]

DataFrame(columns, cells) == [kind |-> "DataFrame", columns |-> columns, cells |-> cells]

Frames ==
    {NoneFrame} \cup {DataFrame(columns, cells) : columns \in ColumnLayouts, cells \in ShortSeries \cup LongSeries \cup TextSeries}

\* What a library call can do on the series: compute a value only with
\* enough bars, and raise on text.  "nan": a result holding only NaN, drawn
\* where the code treats it unlike None; "fails": the manual path raises
\* as well.
Outcomes(cells, manual, nan) ==
    (IF \E i \in DOMAIN cells : cells[i] = WrongKind THEN {"raises"}
     ELSE IF Len(cells) >= LongBars THEN {"value", "raises"}
     ELSE {"none", "raises"} \cup (IF nan THEN {"nan"} ELSE {}))
    \cup (IF manual THEN {"fails"} ELSE {})

LibValues == {RInt(101)}

Library(rsi, macd, sma, ema, adx, bbands, value) ==
    [rsi |-> rsi, macd |-> macd, sma |-> sma, ema |-> ema, adx |-> adx, bbands |-> bbands, value |-> value]

\* The calls that reach the library, and those that return before it.
Computes(frame) ==
    frame.kind = "DataFrame" /\ ~Empty(frame) /\ "close" \in Labels(LowerColumns(frame.columns))

CallsOn(frame) ==
    IF ~Computes(frame)
    THEN {[op |-> "indicators", df |-> frame, lib |-> Library("none", "none", "none", "none", "none", "none", None)]}
    ELSE {[op |-> "indicators", df |-> frame, lib |-> Library(rsi, macd, sma, ema, adx, bbands, value)] :
            rsi \in Outcomes(frame.cells, TRUE, TRUE), macd \in Outcomes(frame.cells, TRUE, TRUE),
            sma \in Outcomes(frame.cells, TRUE, FALSE), ema \in Outcomes(frame.cells, TRUE, FALSE),
            adx \in Outcomes(frame.cells, FALSE, FALSE), bbands \in Outcomes(frame.cells, FALSE, FALSE), value \in LibValues}

IndicatorCalls == UNION {CallsOn(frame) : frame \in Frames}

\* indicators = calculate_technical_indicators(df)
CalculateTechnicalIndicators ==
    /\ pc = "called"
    /\ call.op = "indicators"
    /\ LET returned == calculate_technical_indicators(call.df, call.lib)
       IN  /\ result' = returned.results
           /\ df' = returned.df
    /\ pc' = "returned"
    /\ UNCHANGED <<call, locals, history, cacheVars>>

InitIndicators ==
    /\ call \in IndicatorCalls
    /\ df = call.df
    /\ result = NoResult
    /\ locals = NoResult
    /\ pc = "called"
    /\ history = <<>>
    /\ cache = <<>>
    /\ now = 0
    /\ written = [k \in CacheKeys |-> [state |-> "never"]]

NextIndicators == CalculateTechnicalIndicators

SpecIndicators == InitIndicators /\ [][NextIndicators]_vars

IndicatorsReturned == pc = "returned" /\ call.op = "indicators"

TooShort(frame) == frame.kind = "None" \/ Len(frame.cells) < macd_fast

C12_ShortSeriesAllNone ==
    (IndicatorsReturned /\ TooShort(call.df) /\ result # Raised) =>
        \A k \in DOMAIN result : result[k] = None

(***************************************************************************)
(* C13: after the call returns, the caller's DataFrame has the same column *)
(* names and the same cell values as before the call, on the primary path  *)
(* and on every fallback path.                                             *)
(***************************************************************************)
C13_FrameUnchanged == IndicatorsReturned => df = call.df

(***************************************************************************)
(* C21: the aggregate score is the weighted sum over the sub-scores        *)
(* actually present, the market-context sub-score (weight 25%) and the     *)
(* social-sentiment sub-score (weight 15%) taking part whenever they are   *)
(* there, with the weights normalized to sum to 1 over the present         *)
(* sub-scores; the agreement bonus and the two adjustments are added       *)
(* before clamping and rounding.                                           *)
(***************************************************************************)
ClaimedWeight(key) ==
    CASE key = "market_context" -> Rat(25, 100)
      [] key = "twitter_sentiment" -> Rat(15, 100)
      [] key = "data_quality" -> Rat(10, 100)
      [] OTHER -> Rat(8, 100)

ScoreKeys == <<"rsi", "macd", "bb", "sma", "adx", "ema", "market_context", "twitter_sentiment", "data_quality">>

RECURSIVE PresentSum(_, _, _)
PresentSum(scores, i, weighted) ==
    IF i > Len(ScoreKeys) THEN RInt(0)
    ELSE IF scores[ScoreKeys[i]] = None THEN PresentSum(scores, i + 1, weighted)
    ELSE RAdd(IF weighted THEN RMul(ClaimedWeight(ScoreKeys[i]), scores[ScoreKeys[i]]) ELSE ClaimedWeight(ScoreKeys[i]),
              PresentSum(scores, i + 1, weighted))

NormalizedSum(scores) == RDiv(PresentSum(scores, 1, TRUE), PresentSum(scores, 1, FALSE))

C21_NormalizedWeightedSum ==
    (ScoreReturned /\ ~result.raised) =>
        result.overall_score =
            ClampScore(RAdd(RAdd(NormalizedSum(result.factor_scores), RMul(locals.agreement_ratio, RInt(10))),
                            RInt(locals.market.context_adjustment + locals.twitter.twitter_adjustment)))

(***************************************************************************)
(* C22: when the final direction is bullish or bearish, each note recorded *)
(* together with a directional vote (RSI, MACD, Bollinger band, price vs   *)
(* SMA 50, ADX direction and trend strength, EMA) is in                    *)
(* supporting_indicators if its vote agrees with the final direction and   *)
(* in conflicting_indicators if its vote is for the opposite direction.    *)
(***************************************************************************)
BullishNotes ==
    NotesWithWord("bullish") \cup {"RSI oversold (<30)", "Price near lower Bollinger Band", "Price > SMA 50"}

BearishNotes ==
    NotesWithWord("bearish") \cup {"RSI overbought (>70)", "Price near upper Bollinger Band", "Price < SMA 50"}

TrendNotes == {"Moderate trend (ADX={adx:.1f})", "Strong trend (ADX={adx:.1f})"}

\* The direction of the vote a technical note was recorded with.
NoteVote(note, fam) ==
    IF note \in BullishNotes \/ (note \in TrendNotes /\ fam.adx.bull > 0) THEN "bullish"
    ELSE IF note \in BearishNotes \/ (note \in TrendNotes /\ fam.adx.bear > 0) THEN "bearish"
    ELSE "none"

RecordedNotes(fam) == UNION {fam[f].sup : f \in FamilyNames}

CallFamilies == TechnicalFamilies(call.tech_indicators, call.price)

C22_NotesFiledByVote ==
    (ScoreReturned /\ ~result.raised /\ result.direction # "neutral") =>
        \A note \in RecordedNotes(CallFamilies) :
            /\ NoteVote(note, CallFamilies) = result.direction => note \in result.supporting_indicators
            /\ NoteVote(note, CallFamilies) \notin {result.direction, "none"} => note \in result.conflicting_indicators

(***************************************************************************)
(* C23: every qualitative note recorded during a call (technical notes,    *)
(* market-context notes, social-sentiment notes) is in exactly one of      *)
(* supporting_indicators and conflicting_indicators of the result: none is *)
(* dropped and none is in both.  (The two lists go through list(set(...)), *)
(* and the model holds them as sets, so neither holds a duplicate.)        *)
(***************************************************************************)
AllRecordedNotes ==
    RecordedNotes(CallFamilies) \cup UNION {CallFamilies[f].con : f \in FamilyNames}
    \cup {"Context: " \o note : note \in locals.market.context_notes}
    \cup {"Twitter: " \o note : note \in locals.twitter.twitter_notes}

C23_EveryNoteFiledOnce ==
    (ScoreReturned /\ ~result.raised) =>
        /\ AllRecordedNotes \subseteq result.supporting_indicators \cup result.conflicting_indicators
        /\ result.supporting_indicators \cap result.conflicting_indicators = {}

(***************************************************************************)
(* C24: indicator_agreement comes from the directional votes only: for     *)
(* direction bullish it is bullish / (bullish + bearish), for bearish it   *)
(* is bearish / (bullish + bearish), rounded to 2 decimals; neutral votes  *)
(* never enter the ratio; it is 0.5 when the direction is neutral or no    *)
(* directional vote was cast; the agreement bonus added to the score is    *)
(* 10 times the unrounded ratio.                                           *)
(***************************************************************************)
DirectionalRatio(votes, direction) ==
    IF direction = "neutral" \/ votes.bullish + votes.bearish = 0 THEN Rat(1, 2)
    ELSE IF direction = "bullish" THEN Rat(votes.bullish, votes.bullish + votes.bearish)
    ELSE Rat(votes.bearish, votes.bullish + votes.bearish)

\* The weighted sum of the sub-scores alone, without the bonus.
SubScoreSum == WeightedSum([result.factor_scores EXCEPT !.market_context = None, !.twitter_sentiment = None], RInt(0))

C24_AgreementFromDirectionalVotes ==
    (ScoreReturned /\ ~result.raised) =>
        /\ result.indicator_agreement = Round2(DirectionalRatio(locals.votes, result.direction))
        /\ RSub(locals.weighted, SubScoreSum) = RMul(RInt(10), DirectionalRatio(locals.votes, result.direction))

\* Votes on both sides and neutral votes beside them: the ratio is neither
\* the default nor 1.
C24_Witness ==
    /\ ScoreReturned
    /\ ~result.raised
    /\ result.direction = "bearish"
    /\ locals.votes.bullish > 0
    /\ locals.votes.neutral > 0
    /\ result.indicator_agreement = Round2(Rat(locals.votes.bearish, locals.votes.bullish + locals.votes.bearish))
    /\ result.indicator_agreement # Round2(Rat(locals.votes.bearish, locals.votes.bullish + locals.votes.bearish + locals.votes.neutral))

(***************************************************************************)
(* C25: for snapshots whose values are in their natural ranges, every      *)
(* entry of factor_scores is inside its family's range: rsi, sma, adx and  *)
(* ema in [0,20], macd and bb in [0,25], data_quality in [0,10], and when  *)
(* present market_context in [0,30] and twitter_sentiment in [0,20].       *)
(***************************************************************************)
FamilyRange(key) ==
    CASE key \in {"macd", "bb"} -> 25
      [] key = "data_quality" -> 10
      [] key = "market_context" -> 30
      [] OTHER -> 20

InRange(score, top) == RLe(RInt(0), score) /\ RLe(score, RInt(top))

\* 0 <= RSI, ADX, DI+, DI- <= 100; prices, moving averages and bands > 0
NaturalValue(v, percent) == v = None \/ (IF percent THEN InRange(v, 100) ELSE RLt(RInt(0), v))

NaturalSnapshot(tech_indicators, price) ==
    /\ \A k \in {"rsi", "adx", "adx_plus_di", "adx_minus_di"} : NaturalValue(tech_indicators[k], TRUE)
    /\ \A k \in {"sma_50", "ema_9", "ema_21", "ema_55", "bb_upper", "bb_middle", "bb_lower"} : NaturalValue(tech_indicators[k], FALSE)
    /\ NaturalValue(price, FALSE)

C25_FactorScoresInRange ==
    (ScoreReturned /\ ~result.raised /\ NaturalSnapshot(call.tech_indicators, call.price)) =>
        \A i \in 1..Len(ScoreKeys) :
            result.factor_scores[ScoreKeys[i]] # None => InRange(result.factor_scores[ScoreKeys[i]], FamilyRange(ScoreKeys[i]))

\* The caps bind: RSI 15 would score 22.5, a price far below the lower band
\* would score 37.5, and a context score is stored.
C25_Witness ==
    /\ ScoreReturned
    /\ ~result.raised
    /\ NaturalSnapshot(call.tech_indicators, call.price)
    /\ call.tech_indicators.rsi = RInt(15)
    /\ result.factor_scores.rsi = RInt(20)
    /\ result.factor_scores.bb = RInt(25)
    /\ result.factor_scores.market_context # None

(***************************************************************************)
(* C26: direction, indicator_agreement and the technical factor scores do  *)
(* not depend on the optional inputs: every call returns the same          *)
(* direction, the same indicator_agreement and the same technical factor   *)
(* scores as the call with the same snapshot and price and both optional   *)
(* inputs absent (so any two calls that differ only in the optional        *)
(* inputs agree on them).                                                  *)
(***************************************************************************)
TechnicalKeys == {"rsi", "macd", "bb", "sma", "adx", "ema", "data_quality"}

\* The same call with market_context=None and twitter_sentiment=None.
WithoutOptionalInputs == calculate_confidence_score(call.tech_indicators, call.price, NoContext, NoTwitter)

SameTechnicalPart(a, b) ==
    /\ a.direction = b.direction
    /\ a.indicator_agreement = b.indicator_agreement
    /\ \A k \in TechnicalKeys : a.factor_scores[k] = b.factor_scores[k]

C26_OptionalInputsLeaveDirection ==
    (ScoreReturned /\ ~result.raised) => SameTechnicalPart(result, WithoutOptionalInputs)

\* Both optional inputs were scored and changed the score and the evidence
\* of a directional result.
C26_Witness ==
    /\ ScoreReturned
    /\ ~result.raised
    /\ result.direction # "neutral"
    /\ locals.market.stored
    /\ locals.twitter.stored
    /\ locals.market.context_adjustment < 0
    /\ result.overall_score # WithoutOptionalInputs.overall_score
    /\ result.conflicting_indicators # WithoutOptionalInputs.conflicting_indicators
    /\ SameTechnicalPart(result, WithoutOptionalInputs)

(***************************************************************************)
(* C27: when market_context and twitter_sentiment are both absent,         *)
(* overall_score is at most 21, so the base vote of                        *)
(* generate_trading_signal, which needs a score of at least 30, is not     *)
(* cast for the signal the call returns.                                   *)
(***************************************************************************)
BothAbsent == call.market_context = NoContext /\ call.twitter_sentiment = NoTwitter

\* The votes behind result.signal (line 810 passes the clamped score).
ReturnedSignalVotes == SignalVotes(result.overall_score, result.direction, call.price, call.tech_indicators)

C27_TechnicalScoreAtMost21 ==
    (ScoreReturned /\ ~result.raised /\ BothAbsent) =>
        /\ result.overall_score <= 21
        /\ ReturnedSignalVotes.base.bull = RInt(0)
        /\ ReturnedSignalVotes.base.bear = RInt(0)

\* The bound is met: every family at its cap and full agreement, and the
\* signal is decided by the other votes alone.
C27_Witness ==
    /\ ScoreReturned
    /\ ~result.raised
    /\ BothAbsent
    /\ result.direction = "bullish"
    /\ result.overall_score = 21
    /\ result.signal = "STRONG BUY"

(***************************************************************************)
(* C28: whenever |ema_9 - ema_21| is below 0.5% of ema_21, the EMA         *)
(* near-crossover rule casts exactly one directional vote, bullish iff     *)
(* ema_9 > ema_21 and bearish otherwise, so ema_9 = ema_21 casts a bearish *)
(* vote; a snapshot whose three EMAs all equal the price and that has no   *)
(* other directional vote gets direction 'bearish', not 'neutral'.         *)
(***************************************************************************)
BullishCrossNote == "Recent/potential bullish EMA9/21 crossover"
BearishCrossNote == "Recent/potential bearish EMA9/21 crossover"

\* The votes the other three EMA rules cast with each of their notes.
EmaRuleVotes ==
    [bullish |-> [two |-> {"Strong bullish EMA alignment (9 > 21 > 55)"},
                  one |-> {"Short-term bullish (EMA9 > EMA21)", "Price above EMA55 (bullish)", "Price above all EMAs (strongly bullish)"}],
     bearish |-> [two |-> {"Strong bearish EMA alignment (9 < 21 < 55)"},
                  one |-> {"Short-term bearish (EMA9 < EMA21)", "Price below EMA55 (bearish)", "Price below all EMAs (strongly bearish)"}]]

OtherEmaVotes(side) == 2 * Cardinality(CallFamilies.ema.sup \cap EmaRuleVotes[side].two) + Cardinality(CallFamilies.ema.sup \cap EmaRuleVotes[side].one)

EmaRead == call.tech_indicators.ema_9 # None /\ call.tech_indicators.ema_21 # None /\ call.tech_indicators.ema_55 # None /\ call.price # None

NearCrossover == EmaRead /\ RLt(RAbs(RSub(call.tech_indicators.ema_9, call.tech_indicators.ema_21)), RMul(Rat(5, 1000), call.tech_indicators.ema_21))

Ema9Above == RLt(call.tech_indicators.ema_21, call.tech_indicators.ema_9)

\* The three EMAs equal the price and no other family casts a directional vote.
FlatEmaOnly ==
    /\ EmaRead
    /\ call.tech_indicators.ema_9 = call.price
    /\ call.tech_indicators.ema_21 = call.price
    /\ call.tech_indicators.ema_55 = call.price
    /\ \A f \in FamilyNames \ {"ema"} : CallFamilies[f].bull = 0 /\ CallFamilies[f].bear = 0

C28_NearCrossoverVote ==
    (ScoreReturned /\ ~result.raised) =>
        /\ NearCrossover =>
              /\ CallFamilies.ema.bull = OtherEmaVotes("bullish") + (IF Ema9Above THEN 1 ELSE 0)
              /\ CallFamilies.ema.bear = OtherEmaVotes("bearish") + (IF Ema9Above THEN 0 ELSE 1)
              /\ (BullishCrossNote \in CallFamilies.ema.sup) = Ema9Above
              /\ (BearishCrossNote \in CallFamilies.ema.sup) = ~Ema9Above
        /\ FlatEmaOnly => result.direction = "bearish" /\ locals.votes.bearish = 1 /\ locals.votes.bullish = 0

\* The flat snapshot: equality of the EMAs, the one bearish vote decides.
C28_Witness ==
    /\ ScoreReturned
    /\ ~result.raised
    /\ FlatEmaOnly
    /\ NearCrossover
    /\ ~Ema9Above
    /\ locals.votes.neutral > 0
    /\ result.direction = "bearish"
    /\ BearishCrossNote \in result.supporting_indicators

(***************************************************************************)
(* Tasks of one event loop calling a function decorated with @cached, and  *)
(* clearing its namespace.  A task is suspended only inside an await: at   *)
(* the namespace lock of get's clean-up and of set, and inside the wrapped *)
(* function; what lies between two such points runs as one step.  locals   *)
(* holds each task's frame and its counts of misses and of invocations of  *)
(* the wrapped function, history the clean-ups of get in the order they    *)
(* ran, written the last set or clear.                                     *)
(***************************************************************************)
MaxWrapperCalls == 2

TaskIds == {1, 2}

\* @cached('technical_analysis', lambda coin_id, ...: f"ta_{coin_id}_...")
WrappedNamespace == "technical_analysis"

WrappedKey == "ta_bitcoin_usd_365_True"

\* The decorator's ttl_seconds (Optional[int]): one tick of the clock.
WrappedTtl == <<1>>

\* if ttl_seconds is None: ttl_seconds = self.get_default_ttl(namespace)
SetTtl(namespace, ttl_seconds) == IF ttl_seconds = None THEN get_default_ttl(namespace) ELSE ttl_seconds[1]

\* What the wrapped function returns: None or a result.
FuncResults == {None} \cup CacheValues

IdleTask == [pc |-> "idle", calls |-> 0, misses |-> 0, invoked |-> 0, cached_result |-> None, result |-> None, concurrent |-> FALSE]

\* Another caller is between its miss and the end of its set.
InFlight(t) == \E u \in TaskIds \ {t} : locals[u].pc \in {"in_func", "set_wait"}

\* Mutant of AfterGet: a caller that misses while another caller's miss is in
\* flight joins it instead of calling the function.
AfterGetCoalesced(cached_result, in_flight) ==
    IF cached_result # None THEN "done"
    ELSE IF in_flight THEN "joined"
    ELSE "in_func"

\* if cached_result is not None: return cached_result
\* else: result = await func(*args, **kwargs)
AfterGet(cached_result, in_flight) == IF cached_result # None THEN "done" ELSE "in_func"

\* Mutant of AfterFunc: every result is cached.
AfterFuncStoresNone(func_result) == "set_wait"

\* if result is not None: await cache_manager.set(...)
AfterFunc(func_result) == IF func_result # None THEN "set_wait" ELSE "done"

\* A clean-up of get: whether it deleted the entry, whether the entry it found
\* was unexpired, whether it raised.
Cleanup(t, deleted, fresh, error) == [task |-> t, deleted |-> deleted, fresh |-> fresh, error |-> error]

\* get has returned cached_result to the wrapper of task t, after `events`.
GetReturns(t, calls, cached_result, next, events) ==
    /\ locals' = [locals EXCEPT ![t] = [pc |-> next, calls |-> calls, misses |-> @.misses + (IF cached_result = None THEN 1 ELSE 0), invoked |-> @.invoked + (IF next = "in_func" THEN 1 ELSE 0), cached_result |-> cached_result, result |-> cached_result, concurrent |-> cached_result = None /\ InFlight(t)]]
    /\ history' = history \o events

\* A task calls the decorated function: the wrapper up to its first point of
\* suspension (lines 240-251, get lines 99-105).
WrapperCall(t) ==
    /\ locals[t].pc \in {"idle", "done"}
    /\ locals[t].calls < MaxWrapperCalls
    /\ IF WrappedNamespace \notin DOMAIN cache \/ WrappedKey \notin DOMAIN cache[WrappedNamespace]
       THEN GetReturns(t, locals[t].calls + 1, None, AfterGet(None, InFlight(t)), <<>>)
       ELSE IF is_expired(cache[WrappedNamespace][WrappedKey], now)
       THEN /\ locals' = [locals EXCEPT ![t].pc = "lock_wait", ![t].calls = @ + 1, ![t].cached_result = None, ![t].result = None, ![t].concurrent = FALSE]
            /\ UNCHANGED history
       ELSE GetReturns(t, locals[t].calls + 1, cache[WrappedNamespace][WrappedKey].value, AfterGet(cache[WrappedNamespace][WrappedKey].value, InFlight(t)), <<>>)
    /\ UNCHANGED <<call, result, pc, cacheVars, df>>

\* get's clean-up once the task has the namespace lock (lines 105-109), then
\* the wrapper up to its next point of suspension.
GetCleanup(t) ==
    /\ locals[t].pc = "lock_wait"
    /\ IF WrappedNamespace \notin DOMAIN cache
       THEN /\ locals' = [locals EXCEPT ![t].pc = "raised"]
            /\ history' = Append(history, Cleanup(t, FALSE, FALSE, TRUE))
            /\ UNCHANGED cache
       ELSE /\ cache' = RemoveExpired(WrappedNamespace, WrappedKey, now)
            /\ GetReturns(t, locals[t].calls, None, AfterGet(None, InFlight(t)), <<Cleanup(t, cache' # cache, WrappedKey \in DOMAIN cache[WrappedNamespace] /\ ~is_expired(cache[WrappedNamespace][WrappedKey], now), FALSE)>>)
    /\ UNCHANGED <<call, result, pc, now, written, df>>

\* The wrapped function returns to the wrapper (line 251).
FuncReturns(t) ==
    /\ locals[t].pc = "in_func"
    /\ \E func_result \in FuncResults :
          locals' = [locals EXCEPT ![t].result = func_result, ![t].pc = AfterFunc(func_result)]
    /\ UNCHANGED <<call, result, pc, history, cacheVars, df>>

\* set once the task has the namespace lock (lines 127-132); the wrapper
\* returns its result.
WrapperSet(t) ==
    /\ locals[t].pc = "set_wait"
    /\ cache' = DictWith(cache, WrappedNamespace, DictWith(IF WrappedNamespace \in DOMAIN cache THEN cache[WrappedNamespace] ELSE <<>>, WrappedKey, CacheEntry(locals[t].result, SetTtl(WrappedNamespace, WrappedTtl), now)))
    /\ written' = [written EXCEPT ![<<WrappedNamespace, WrappedKey>>] = [state |-> "set", value |-> locals[t].result, at |-> now, ttl |-> SetTtl(WrappedNamespace, WrappedTtl)]]
    /\ locals' = [locals EXCEPT ![t].pc = "done"]
    /\ UNCHANGED <<call, result, pc, history, now, df>>

InitTasks ==
    /\ call = NoResult
    /\ result = NoResult
    /\ locals = [t \in TaskIds |-> IdleTask]
    /\ pc = "returned"
    /\ history = <<>>
    /\ cache = <<>>
    /\ now = 0
    /\ written = [k \in {<<WrappedNamespace, WrappedKey>>} |-> [state |-> "never"]]
    /\ df = None

NextTasks ==
    \/ \E t \in TaskIds : WrapperCall(t)
    \/ \E t \in TaskIds : GetCleanup(t)
    \/ \E t \in TaskIds : FuncReturns(t)
    \/ \E t \in TaskIds : WrapperSet(t)
    \/ CacheClearNamespace(WrappedNamespace)
    \/ Tick

SpecTasks == InitTasks /\ [][NextTasks]_vars

(***************************************************************************)
(* C29: the @cached wrapper does not coalesce concurrent misses: a caller  *)
(* that misses invokes the wrapped function itself, also when another      *)
(* caller's miss on the same key is still in flight, so the function runs  *)
(* once per missing caller; the cache holds the value of whichever set ran *)
(* last; a result of None is never stored.                                 *)
(***************************************************************************)
WrappedStored == WrappedNamespace \in DOMAIN cache /\ WrappedKey \in DOMAIN cache[WrappedNamespace]

LastWrappedSet == written[<<WrappedNamespace, WrappedKey>>]

C29_NoCoalescing ==
    /\ \A t \in TaskIds : locals[t].invoked = locals[t].misses
    /\ \A t \in TaskIds : (locals[t].pc = "set_wait") => locals[t].result # None
    /\ WrappedStored =>
          /\ LastWrappedSet.state = "set"
          /\ cache[WrappedNamespace][WrappedKey].value = LastWrappedSet.value
          /\ cache[WrappedNamespace][WrappedKey].value # None

\* Task 2 missed while task 1's miss was in flight; each invoked the function
\* once, they got different results, and the cache holds task 1's, whose set
\* ran last.
C29_Witness ==
    /\ \A t \in TaskIds : locals[t].pc = "done" /\ locals[t].calls = 1 /\ locals[t].invoked = 1
    /\ locals[2].concurrent
    /\ locals[1].result # None
    /\ locals[2].result # None
    /\ locals[1].result # locals[2].result
    /\ WrappedStored
    /\ cache[WrappedNamespace][WrappedKey].value = locals[1].result

(***************************************************************************)
(* C30: get never removes an unexpired entry: when get has seen an expired *)
(* entry and another task sets a fresh value for the key or clears the     *)
(* namespace before get has the namespace lock, the clean-up under the     *)
(* lock deletes nothing unexpired and raises no error, and the next get    *)
(* inside the fresh entry's ttl returns it.                                *)
(***************************************************************************)
\* The last set of the key is neither cleared nor past its ttl.
FreshSet == LastWrappedSet.state = "set" /\ now <= LastWrappedSet.at + LastWrappedSet.ttl

CleanupsHarmless == \A i \in DOMAIN history : ~history[i].error /\ (history[i].deleted => ~history[i].fresh)

NextGetHits == \A t \in TaskIds : (WrapperCall(t) /\ FreshSet) => locals'[t].cached_result = LastWrappedSet.value /\ locals'[t].pc = "done"

C30_GetKeepsUnexpired == [](CleanupsHarmless /\ (FreshSet => WrappedStored)) /\ [][NextGetHits]_vars

\* A clean-up found a fresh entry where its get had seen an expired one and
\* left it; a later get returned that entry.
C30_Witness ==
    /\ \E i \in DOMAIN history : history[i].fresh /\ ~history[i].deleted /\ ~history[i].error
    /\ \E t \in TaskIds :
          /\ locals[t].pc = "done"
          /\ locals[t].calls = 2
          /\ locals[t].cached_result # None
          /\ locals[t].cached_result = LastWrappedSet.value
    /\ FreshSet
    /\ WrappedStored

====
